---- MODULE Spec2Model ----
(***************************************************************************)
(* The deploy session of rise: bucket step, stack step, upload step,      *)
(* update step (updateStack / waitForUpdate) and ping step (pingFunctions *)
(* / pingPromiseAll / pingPromise), as the chain of promise callbacks the *)
(* code runs.  Each action is one callback of the event loop; RemoteReply *)
(* is the remote service settling the single call in flight.              *)
(* Strings the code searches or concatenates are sequences of characters  *)
(* (names) or of phrases (error messages).                                *)
(***************************************************************************)
EXTENDS Integers, Sequences, FiniteSets, TLC

VARIABLES
    state,       \* session.state
    hist,        \* the values session.state has taken, in order
    functions,   \* session.functions: manifest name -> entry
    pc,          \* the callback the deploy is waiting for
    calls,       \* remote calls issued by the step in progress, in order
    reply,       \* <<>> or <<r>>: the settled, not yet handled call in flight
    result,      \* how the last step settled: [step, kind, val]
    tolerated,   \* which error branch of updateStack's catch resolved, if any
    transfers,   \* upload step: package -> "pending" | "ok" | "failed"
    tempFiles,   \* upload step: packages whose local temp file still exists
    listed,      \* ping step: <<>> or <<data.Functions>> of the listing received
    pings,       \* ping step: <<deployed name, manifest name>> -> invocation
    compressedFunctions,  \* session.compressedFunctions: the uploaded records
    routes,      \* session.routes: the paths in key order, and the route default
    cfTemplate,  \* <<>> or <<Resources>>: the fragments a builder returned
    methodCalls, \* the createAPIMethod calls of the route builder, in order
    resourceCalls,  \* the createAPIResource calls of the route builder, in order
    middlewares, \* Stack._stack: the arity of each registered middleware
    currIndex,   \* Stack._currIndex
    requests,    \* how many requests arrive at the Stack
    started,     \* how many times run was called on the Stack
    frames,      \* the middleware invocations now executing, innermost last
    deferred,    \* next callbacks a middleware kept to call later: [inv, err]
    invocations, \* every middleware invocation so far: [run, pos, err, nexts, raises]
    defaults,    \* every call of _defaultErrorHandler so far: [run, err, sent]
    finished,    \* res.finished of the response of each run
    pendingErr,  \* per run: <<n>> when an error was raised after n invocations and no
                 \* error handler invoked since has called next() without an error
    response,    \* one Response: its status code, headers, body, finished and done
    doneCalls,   \* the payloads the done callback of the Response has received
    outcome,     \* the last call on the Response: its name, the state before, thrown or not
    legacyFunctions,  \* the manifest given to the legacy DeployFunctions, in key order
    legacyTemplate    \* <<>> or <<template>>: what DeployFunctions submitted

vars == <<state, hist, functions, pc, calls, reply, result, tolerated, transfers,
          tempFiles, listed, pings, compressedFunctions, routes, cfTemplate,
          methodCalls, resourceCalls, middlewares, currIndex, requests, started, frames, deferred,
          invocations, defaults, finished, pendingErr,
          response, doneCalls, outcome, legacyFunctions,
          legacyTemplate>>

\* what the template builders read and write besides session.functions
synthesis == <<compressedFunctions, routes, cfTemplate, methodCalls, resourceCalls>>

\* what the steps of the deploy chain read and write besides session.functions
chain == <<state, hist, pc, calls, reply, result, tolerated, transfers, tempFiles,
           listed, pings>>

\* the object that Stack.run works on
middleware == <<middlewares, currIndex, requests, started, frames, deferred, invocations, defaults,
                finished, pendingErr>>

\* one Response object and what its done callback has seen
responding == <<response, doneCalls, outcome>>

\* the input and the output of the legacy DeployFunctions
legacy == <<legacyFunctions, legacyTemplate>>

\* what no step of the deploy chain and no template builder touches
framework == <<middleware, responding, legacy>>

----------------------------------------------------------------------------
(* Bounds of the model *)

\* manifest entries of one session
MaxManifest == 2
\* functions returned by one listFunctions call
MaxListed == 2
\* phrases in one error message
MaxPhrases == 2
\* local packages of one upload step
NumPackages == 2
\* uploaded records one function builder call reads
MaxUploaded == 2
\* path keys of one route map
MaxPaths == 2
\* triggers one manifest entry declares
MaxTriggers == 2
\* middleware registered on one Stack
MaxMiddlewares == 3
\* pieces written to the body of one Response
MaxPieces == 2
\* functions of the manifest given to the legacy DeployFunctions
MaxLegacyFunctions == 2

----------------------------------------------------------------------------
(* Strings *)

\* String.prototype.startsWith
StartsWith(s, p) == Len(p) <= Len(s) /\ SubSeq(s, 1, Len(p)) = p

\* msg.indexOf(phrase) !== -1, on a message made of phrases
Contains(msg, phrase) == \E i \in 1..Len(msg) : msg[i] = phrase

stackName == <<"s">>
bucketName == <<"b">>
region == <<"r">>

Stacks == {stackName, <<"t">>}
FnNames == {<<"a">>, <<"a", "b">>, <<"b">>}

\* the name the provider gives the deployed function fn of stack st
PhysicalName(st, fn) == st \o <<"-">> \o fn \o <<"-", "X">>

DeployedNames == {PhysicalName(st, fn) : st \in Stacks, fn \in FnNames}

Listings == {l \in SUBSET DeployedNames : Cardinality(l) <= MaxListed}

\* a manifest entry: null (declared without a body), or a record with bare
Entries ==
    [isNull : {FALSE}, bare : BOOLEAN, triggers : {<<>>}]
      \cup {[isNull |-> TRUE, bare |-> FALSE, triggers |-> <<>>]}

Manifests ==
    UNION {[names -> Entries] :
             names \in {ns \in SUBSET FnNames : Cardinality(ns) <= MaxManifest}}

----------------------------------------------------------------------------
(* Errors and replies of the remote services *)

NoUpdates == "No updates are to be performed"
NotReady == "Resource is not in the state stackUpdateComplete"
DoesNotExist == "does not exist"
SomeError == "some error"

\* an error value: code, and message (absent, or a string of phrases)
Error(code, hasMessage, message) ==
    [code |-> code, hasMessage |-> hasMessage, message |-> message]

SeqsUpTo(S, n) == UNION {[1..k -> S] : k \in 0..n}

UpdateErrors ==
    {Error("ValidationError", TRUE, m) :
        m \in SeqsUpTo({NoUpdates, NotReady, SomeError}, MaxPhrases)}
    \cup {Error("Unknown", FALSE, <<>>)}

StackErrors ==
    {Error("ValidationError", TRUE, <<DoesNotExist>>),
     Error("ValidationError", TRUE, <<SomeError>>),
     Error("Unknown", FALSE, <<>>)}

BucketErrors ==
    {Error("NotFound", FALSE, <<>>), Error("OtherError", FALSE, <<>>)}

ListErrors == {Error("ServiceException", TRUE, <<SomeError>>)}

TransferError == Error("NetworkingError", TRUE, <<SomeError>>)

InvokeError == Error("ServiceException", TRUE, <<SomeError>>)

NoError == Error("", FALSE, <<>>)

\* new Error("functions are not deployed properly")
NotDeployedProperly == Error("Error", TRUE, <<"functions are not deployed properly">>)

Ok(data) == [ok |-> TRUE, err |-> NoError, data |-> data]
Failed(e) == [ok |-> FALSE, err |-> e, data |-> {}]

\* JavaScript truthiness of err.message
HasMessage(err) == err.hasMessage /\ err.message # <<>>

OkStatus == 200
OkPayload == "{\"test\":\"ok\"}"
BadPayload == "{\"test\":\"no\"}"

\* what one lambda.invoke can come back with
InvokeReplies ==
    {[failed |-> FALSE, StatusCode |-> OkStatus, Payload |-> OkPayload],
     [failed |-> FALSE, StatusCode |-> 500, Payload |-> OkPayload],
     [failed |-> FALSE, StatusCode |-> OkStatus, Payload |-> BadPayload],
     [failed |-> TRUE, StatusCode |-> 0, Payload |-> ""]}

Pending == [failed |-> FALSE, StatusCode |-> -1, Payload |-> "pending"]

RepliesOf(op) ==
    CASE op = "headBucket" -> {Ok({})} \cup {Failed(e) : e \in BucketErrors}
      [] op = "createBucket" -> {Ok({})} \cup {Failed(e) : e \in BucketErrors}
      [] op = "describeStacks" -> {Ok({})} \cup {Failed(e) : e \in StackErrors}
      [] op = "createStack" -> {Ok({})} \cup {Failed(e) : e \in StackErrors}
      [] op = "waitCreate" -> {Ok({})} \cup {Failed(e) : e \in StackErrors}
      [] op = "updateStack" -> {Ok({})} \cup {Failed(e) : e \in UpdateErrors}
      [] op = "waitUpdate" -> {Ok({})} \cup {Failed(e) : e \in UpdateErrors}
      [] op = "listFunctions" -> {Ok(l) : l \in Listings} \cup {Failed(e) : e \in ListErrors}
      [] OTHER -> {}

Call(op, args) == [op |-> op, args |-> args]

Resolved(step) == [step |-> step, kind |-> "resolved", val |-> NoError]
Rejected(step, e) == [step |-> step, kind |-> "rejected", val |-> e]
NoResult == [step |-> "", kind |-> "none", val |-> NoError]

Packages == 1..NumPackages

\* the calls of run on one Stack: each has its own request and response
Runs == {1, 2}

----------------------------------------------------------------------------
(* The session after construction *)

\* a value that is undefined or null
Undefined == <<>>

\* session.routes without paths and without a default
NoRoutes == [paths |-> <<>>, default |-> [cors |-> Undefined]]

\* no step of the deploy chain has run
ChainIdle ==
    /\ state = "INIT"
    /\ hist = <<"INIT">>
    /\ pc = "init"
    /\ calls = <<>>
    /\ reply = <<>>
    /\ result = NoResult
    /\ tolerated = "none"
    /\ transfers = [p \in Packages |-> "idle"]
    /\ tempFiles = Packages
    /\ listed = <<>>
    /\ pings = <<>>

\* no builder has run and the session carries nothing for one
NothingToSynthesize ==
    /\ compressedFunctions = <<>>
    /\ routes = NoRoutes
    /\ cfTemplate = <<>>
    /\ methodCalls = <<>>
    /\ resourceCalls = <<>>

\* the Stack holds no middleware
NoMiddleware == middlewares = <<>> /\ requests = 0

\* run has not been called on the Stack
NotRunning ==
    /\ currIndex = 0
    /\ started = 0
    /\ frames = <<>>
    /\ deferred = {}
    /\ invocations = <<>>
    /\ defaults = <<>>
    /\ finished = [r \in Runs |-> FALSE]
    /\ pendingErr = [r \in Runs |-> Undefined]

\* no Response has been constructed
NoResponse ==
    /\ response = <<>>
    /\ doneCalls = <<>>
    /\ outcome = <<>>

\* the legacy DeployFunctions has not been called
NoLegacy ==
    /\ legacyFunctions = <<>>
    /\ legacyTemplate = <<>>

\* nothing of the framework and of the legacy builder is in use
FrameworkIdle == NoMiddleware /\ NotRunning /\ NoResponse /\ NoLegacy

Init ==
    /\ ChainIdle
    /\ FrameworkIdle
    /\ functions \in Manifests
    /\ NothingToSynthesize

\* the remote service settles the call in flight
RemoteReply ==
    /\ reply = <<>>
    /\ \E r \in RepliesOf(pc) : reply' = <<r>>
    /\ UNCHANGED <<state, hist, functions, framework, synthesis, pc, calls, result, tolerated, transfers,
                   tempFiles, listed, pings>>

\* session.state = tag
SetState(tag) == state' = tag /\ hist' = Append(hist, tag)

\* the callback of the call op in flight runs on its reply
Handle(op, ok) == pc = op /\ reply # <<>> /\ reply[1].ok = ok /\ reply' = <<>>

\* a step rejects: the deploy chain ends with that error
Reject(step, e) == pc' = "rejected" /\ result' = Rejected(step, e)

----------------------------------------------------------------------------
(* Function builder: getFunctionResources.  A name is a sequence of tokens, *)
(* so that funcName + 'Version' is funcName \o <<"Version">>; a value that *)
(* may be undefined is <<>> or <<v>>.                                       *)

\* the built-in timeout and memory of getFunctionResources
BuiltinTimeout == 3
BuiltinMemory == 128

DefaultName == <<"default">>
Version == <<"Version">>
Permission == <<"Permission">>

\* names a manifest key or an uploaded record can carry
BuilderNames == {<<"a">>, <<"a">> \o Version, DefaultName}

\* a manifest entry as the builder reads it: null, or timeout and memory, each optional
Settings ==
    {[isNull |-> TRUE, timeout |-> Undefined, memory |-> Undefined]}
      \cup [isNull : {FALSE}, timeout : {Undefined, <<0>>, <<10>>},
            memory : {Undefined, <<256>>}]

BuilderManifests ==
    UNION {[names -> Settings] :
             names \in {ns \in SUBSET BuilderNames : Cardinality(ns) <= MaxManifest}}

UploadPaths == {<<"k", "1">>, <<"k", "2">>}

\* session.compressedFunctions: records of distinct functions, in upload order
UploadedFunctions ==
    {u \in SeqsUpTo([functionName : BuilderNames, uploadPath : UploadPaths], MaxUploaded) :
        \A i, j \in 1..Len(u) : u[i].functionName = u[j].functionName => i = j}

\* result[key] = value on a plain object
Put(obj, key, value) ==
    [k \in DOMAIN obj \cup {key} |-> IF k = key THEN value ELSE obj[k]]

\* Object.assign({}, target, source)
Assign(target, source) ==
    [k \in DOMAIN target \cup DOMAIN source |->
        IF k \in DOMAIN source THEN source[k] ELSE target[k]]

EmptyObject == [k \in {} |-> Undefined]

\* functions.default || { timeout: 3, memory: 128 }
FunctionDefaultSetting(fns) ==
    IF DefaultName \in DOMAIN fns /\ ~fns[DefaultName].isNull
      THEN fns[DefaultName]
      ELSE [isNull |-> FALSE, timeout |-> <<BuiltinTimeout>>, memory |-> <<BuiltinMemory>>]

\* own != null ? own : inherited
OrElse(own, inherited) == IF own # Undefined THEN own ELSE inherited

\* the timeout the loop body computes for funcName
ResolveTimeout(fns, funcName) ==
    LET inherited == FunctionDefaultSetting(fns).timeout
    IN  IF funcName \in DOMAIN fns /\ ~fns[funcName].isNull
          THEN OrElse(fns[funcName].timeout, inherited)
          ELSE inherited

\* the memory size the loop body computes for funcName
ResolveMemory(fns, funcName) ==
    LET inherited == FunctionDefaultSetting(fns).memory
    IN  IF funcName \in DOMAIN fns /\ ~fns[funcName].isNull
          THEN OrElse(fns[funcName].memory, inherited)
          ELSE inherited

\* cf-lambda-function.json with $S3KEY, $S3BUCKET, $TIMEOUT, $MEMORY_SIZE replaced
FunctionFragment(bucket, key, timeout, memory) ==
    [type |-> "function", of |-> Undefined, bucket |-> bucket, key |-> key,
     timeout |-> timeout, memory |-> memory]

\* cf-lambda-version.json with $FUNCTION_NAME replaced
VersionFragment(funcName) ==
    [type |-> "version", of |-> funcName, bucket |-> Undefined, key |-> Undefined,
     timeout |-> Undefined, memory |-> Undefined]

\* cf-lambda-permission.json with $FUNCTION_NAME replaced
PermissionFragment(funcName) ==
    [type |-> "permission", of |-> funcName, bucket |-> Undefined, key |-> Undefined,
     timeout |-> Undefined, memory |-> Undefined]

\* the loop of getFunctionResources from record i on, resources being built
RECURSIVE FunctionResourcesFrom(_, _, _, _, _)
FunctionResourcesFrom(bucket, fns, uploaded, i, resources) ==
    IF i > Len(uploaded)
      THEN resources
      ELSE LET funcName == uploaded[i].functionName
               unit == FunctionFragment(bucket, uploaded[i].uploadPath,
                                        ResolveTimeout(fns, funcName),
                                        ResolveMemory(fns, funcName))
               r1 == Put(resources, funcName, unit)
               r2 == Put(r1, funcName \o Version, VersionFragment(funcName))
               r3 == Put(r2, funcName \o Permission, PermissionFragment(funcName))
           IN  FunctionResourcesFrom(bucket, fns, uploaded, i + 1, r3)

getFunctionResources(bucket, fns, uploaded) ==
    FunctionResourcesFrom(bucket, fns, uploaded, 1, EmptyObject)

\* the builder called on the session's manifest and uploaded records
SynthesizeFunctions ==
    /\ cfTemplate = <<>>
    /\ cfTemplate' = <<getFunctionResources(bucketName, functions, compressedFunctions)>>
    /\ UNCHANGED <<functions, framework, compressedFunctions, routes, methodCalls, resourceCalls,
                   chain>>

----------------------------------------------------------------------------
(* Route tree builder: getAPIResources, createAPIResource, createAPIMethod. *)
(* A path, a token and a method key are sequences of characters; the tree   *)
(* maps the tokens leading to a node to that node.                          *)

\* pathTree.name
RootName == <<"RiseAPIResource">>

\* { 'Fn::GetAtt': ['RiseAPI', 'RootResourceId'] } and { Ref: name }
RootRef == [att |-> TRUE, name |-> <<"RiseAPI", "RootResourceId">>]
Ref(name) == [att |-> FALSE, name |-> name]

Options == <<"O", "P", "T", "I", "O", "N", "S">>

Min(a, b) == IF a <= b THEN a ELSE b

\* String.prototype.substr(start, length)
Substr(s, start, length) == SubSeq(s, start + 1, Min(Len(s), start + length))

UpperChar(c) ==
    CASE c = "a" -> "A" [] c = "b" -> "B" [] c = "e" -> "E" [] c = "g" -> "G"
      [] c = "o" -> "O" [] c = "p" -> "P" [] c = "s" -> "S" [] c = "t" -> "T"
      [] OTHER -> c

\* String.prototype.toUpperCase
ToUpperCase(s) == [i \in 1..Len(s) |-> UpperChar(s[i])]

\* titlecase of utils/stringHelper: the token with its first letter capitalized
Titlecase(token) ==
    IF token = <<>> THEN token ELSE <<UpperChar(token[1])>> \o Tail(token)

\* token.replace(/[\{\}]/g, '')
StripBraces(token) == SelectSeq(token, LAMBDA c : c \notin {"{", "}"})

\* the two trimming steps on a path key
TrimPath(p) ==
    LET trimedPath == IF Len(p) > 0 /\ p[1] = "/" THEN Substr(p, 1, Len(p)) ELSE p
    IN  IF Len(trimedPath) > 0 /\ trimedPath[Len(trimedPath)] = "/"
          THEN Substr(trimedPath, 0, Len(p) - 1)
          ELSE trimedPath

\* String.prototype.split('/')
RECURSIVE Split(_)
Split(s) ==
    IF \A i \in 1..Len(s) : s[i] # "/"
      THEN <<s>>
      ELSE LET i == CHOOSE k \in 1..Len(s) :
                        s[k] = "/" /\ \A j \in 1..(k - 1) : s[j] # "/"
           IN  <<SubSeq(s, 1, i - 1)>> \o Split(SubSeq(s, i + 1, Len(s)))

\* cf-api-resource.json with $LAST_PATH replaced and ParentId set
ResourceFragment(token, parentId) ==
    [type |-> "resource", part |-> token, ref |-> parentId, method |-> <<>>,
     fn |-> <<>>, corsMethods |-> <<>>]

\* cf-api-method.json with $METHOD and $FUNCTION_NAME replaced and ResourceId set
MethodFragment(method, fn, resourceId) ==
    [type |-> "method", part |-> <<>>, ref |-> resourceId, method |-> method,
     fn |-> fn, corsMethods |-> <<>>]

\* cf-api-cors.json with $CORS_METHODS replaced by the joined list and ResourceId set
CorsFragment(corsMethods, resourceId) ==
    [type |-> "cors", part |-> <<>>, ref |-> resourceId, method |-> Options,
     fn |-> <<>>, corsMethods |-> corsMethods]

ResourceIdOf(res) == IF res.isRoot THEN RootRef ELSE Ref(res.name)

createAPIResource(parent, name, token) ==
    Put(EmptyObject, name, ResourceFragment(token, ResourceIdOf(parent)))

\* the route default taken before the method's own flag
HasCors_DefaultFirst(method, defaultSetting) ==
    LET cors == IF defaultSetting.cors # Undefined THEN defaultSetting.cors ELSE method.cors
    IN  cors = <<TRUE>>

\* whether the method is pushed on corsMethods
HasCors(method, defaultSetting) ==
    LET cors == IF method.cors # Undefined THEN method.cors ELSE defaultSetting.cors
    IN  cors = <<TRUE>>

\* the loop of createAPIMethod from method i on
RECURSIVE MethodsFrom(_, _, _, _, _, _)
MethodsFrom(res, defaultSetting, methods, i, fragments, corsMethods) ==
    IF i > Len(methods)
      THEN [result |-> fragments, corsMethods |-> corsMethods]
      ELSE LET m == ToUpperCase(methods[i].name)
               bound == Put(fragments, res.name \o m,
                            MethodFragment(m, methods[i].fn, ResourceIdOf(res)))
           IN  MethodsFrom(res, defaultSetting, methods, i + 1, bound,
                           IF HasCors(methods[i], defaultSetting)
                             THEN Append(corsMethods, m)
                             ELSE corsMethods)

createAPIMethod(res, defaultSetting, methods) ==
    LET done == MethodsFrom(res, defaultSetting, methods, 1, EmptyObject, <<>>)
    IN  IF Len(done.corsMethods) > 0
          THEN Put(done.result, res.name \o Options,
                   CorsFragment(Append(done.corsMethods, Options), ResourceIdOf(res)))
          ELSE done.result

\* createAPIMethod called for res: its fragments merged, the call recorded
AttachMethods(walk, node, defaultSetting, methods) ==
    LET res == walk.tree[node]
        fragments == createAPIMethod(res, defaultSetting, methods)
    IN  [walk EXCEPT !.result = Assign(@, fragments),
                     !.log = Append(@, [key |-> walk.key, node |-> node, res |-> res,
                                        methods |-> methods, fragments |-> fragments])]

\* the root path taken only when it is the first key of the map
TokenStep_RootOnlyFirst(walk, token, isLast, defaultSetting, methods) ==
    LET parent == walk.tree[walk.parent]
        name == parent.name \o Titlecase(StripBraces(token))
        child == Append(walk.parent, token)
    IN  IF token = <<>>
          THEN IF DOMAIN walk.result = {}
                 THEN AttachMethods(walk, walk.parent, defaultSetting, methods)
                 ELSE walk
          ELSE LET seen == child \in DOMAIN walk.tree
                   grown == IF seen THEN walk
                            ELSE [walk EXCEPT
                                    !.tree = Put(@, child, [name |-> name, isRoot |-> FALSE]),
                                    !.result = Assign(@, createAPIResource(parent, name, token)),
                                    !.attached = Append(@, [key |-> walk.key, node |-> child,
                                                            name |-> name,
                                                            parent |-> walk.parent])]
                   bound == IF isLast
                              THEN AttachMethods(grown, child, defaultSetting, methods)
                              ELSE grown
               IN  [bound EXCEPT !.parent = child]

\* a node attached again by every path that passes through it
TokenStep_AlwaysAttach(walk, token, isLast, defaultSetting, methods) ==
    LET parent == walk.tree[walk.parent]
        name == parent.name \o Titlecase(StripBraces(token))
        child == Append(walk.parent, token)
    IN  IF token = <<>>
          THEN AttachMethods(walk, walk.parent, defaultSetting, methods)
          ELSE LET grown == [walk EXCEPT
                                !.tree = Put(@, child, [name |-> name, isRoot |-> FALSE]),
                                !.result = Assign(@, createAPIResource(parent, name, token)),
                                !.attached = Append(@, [key |-> walk.key, node |-> child,
                                                        name |-> name,
                                                        parent |-> walk.parent])]
                   bound == IF isLast
                              THEN AttachMethods(grown, child, defaultSetting, methods)
                              ELSE grown
               IN  [bound EXCEPT !.parent = child]

\* one iteration of the loop over the tokens of a path
TokenStep(walk, token, isLast, defaultSetting, methods) ==
    LET parent == walk.tree[walk.parent]
        name == parent.name \o Titlecase(StripBraces(token))
        child == Append(walk.parent, token)
    IN  IF token = <<>>
          THEN AttachMethods(walk, walk.parent, defaultSetting, methods)
          ELSE LET seen == child \in DOMAIN walk.tree
                   grown == IF seen THEN walk
                            ELSE [walk EXCEPT
                                    !.tree = Put(@, child, [name |-> name, isRoot |-> FALSE]),
                                    !.result = Assign(@, createAPIResource(parent, name, token)),
                                    !.attached = Append(@, [key |-> walk.key, node |-> child,
                                                            name |-> name,
                                                            parent |-> walk.parent])]
                   bound == IF isLast
                              THEN AttachMethods(grown, child, defaultSetting, methods)
                              ELSE grown
               IN  [bound EXCEPT !.parent = child]

\* the loop over the tokens of one path, from token i on
RECURSIVE WalkTokens(_, _, _, _, _)
WalkTokens(walk, tokens, i, defaultSetting, methods) ==
    IF i > Len(tokens)
      THEN walk
      ELSE WalkTokens(TokenStep(walk, tokens[i], i = Len(tokens), defaultSetting, methods),
                      tokens, i + 1, defaultSetting, methods)

\* the loop over the keys of routes.paths, from key k on
RECURSIVE WalkPaths(_, _, _, _)
WalkPaths(walk, paths, k, defaultSetting) ==
    IF k > Len(paths)
      THEN walk
      ELSE WalkPaths(WalkTokens([walk EXCEPT !.parent = <<>>, !.key = k],
                                Split(TrimPath(paths[k].path)), 1,
                                defaultSetting, paths[k].methods),
                     paths, k + 1, defaultSetting)

\* the tree holding only the root, nothing synthesized
PathTree ==
    [parent |-> <<>>,
     tree |-> Put(EmptyObject, <<>>, [name |-> RootName, isRoot |-> TRUE]),
     result |-> EmptyObject,
     key |-> 0,
     log |-> <<>>,
     attached |-> <<>>]

\* getAPIResources with the tree and the calls it made: key is the position of the
\* path key being processed, log the createAPIMethod calls, attached the
\* createAPIResource calls
BuildRoutes(rts) == WalkPaths(PathTree, rts.paths, 1, rts.default)

getAPIResources(rts) == BuildRoutes(rts).result

\* path keys and method keys of a route map
RoutePaths == {<<"/">>, <<"/", "a">>, <<"/", "a", "/">>, <<"/", "a", "/", "b">>}
Get == <<"g", "e", "t">>
Post == <<"p", "o", "s", "t">>
\* a method entry: get with or without a cors flag, post with an explicit one
Methods ==
    [name : {Get}, fn : {<<"a">>}, cors : {Undefined, <<TRUE>>, <<FALSE>>}]
      \cup [name : {Post}, fn : {<<"a">>}, cors : {<<TRUE>>, <<FALSE>>}]

\* the methods object of one path: none, get, or get followed by post
MethodMaps ==
    {m \in SeqsUpTo(Methods, 2) :
        /\ Len(m) >= 1 => m[1].name = Get
        /\ Len(m) = 2 => m[2].name = Post}

\* session.routes: the paths in key order and the x-rise default
RouteMaps ==
    {[paths |-> ps, default |-> d] :
        ps \in {s \in SeqsUpTo([path : RoutePaths, methods : MethodMaps], MaxPaths) :
                  \A i, j \in 1..Len(s) : s[i].path = s[j].path => i = j},
        d \in [cors : {Undefined, <<TRUE>>}]}

\* the route builder called on the session's routes
SynthesizeRoutes ==
    /\ cfTemplate = <<>>
    /\ cfTemplate' = <<getAPIResources(routes)>>
    /\ methodCalls' = BuildRoutes(routes).log
    /\ resourceCalls' = BuildRoutes(routes).attached
    /\ UNCHANGED <<functions, framework, compressedFunctions, routes, chain>>

----------------------------------------------------------------------------
(* Trigger builder: getTriggerResources.  A trigger declaration is its kind  *)
(* and its configuration; the sub-builders of ./triggers are taken to emit   *)
(* one fragment per declaration, named after the function and the kind.     *)

\* the kinds the switch of getTriggerResources has a case for
RecognizedKinds == {"s3", "cloudwatch_events", "cloudwatch_logs", "stream", "sns"}

Trigger == <<"Trigger">>

\* the fragment a sub-builder returns for one declaration of funcName
TriggerFragment(trigger, funcName, where, roleResource) ==
    [type |-> "trigger", kind |-> trigger.kind, of |-> funcName,
     config |-> trigger.config,
     region |-> IF trigger.kind = "cloudwatch_logs" THEN where ELSE Undefined,
     role |-> IF trigger.kind = "stream" THEN roleResource ELSE Undefined]

\* an unknown kind discarding what the loop has built
TriggerStep_UnknownAborts(resources, trigger, funcName, where, roleResource) ==
    IF trigger.kind \in RecognizedKinds
      THEN Put(resources, funcName \o Trigger \o <<trigger.kind>>,
               TriggerFragment(trigger, funcName, where, roleResource))
      ELSE EmptyObject

\* one iteration of the loop over the declarations: the case of the switch
TriggerStep(resources, trigger, funcName, where, roleResource) ==
    IF trigger.kind \in RecognizedKinds
      THEN Put(resources, funcName \o Trigger \o <<trigger.kind>>,
               TriggerFragment(trigger, funcName, where, roleResource))
      ELSE resources

\* the loop over the declarations of one function, from declaration i on
RECURSIVE TriggersFrom(_, _, _, _, _, _)
TriggersFrom(resources, triggers, i, funcName, where, roleResource) ==
    IF i > Len(triggers)
      THEN resources
      ELSE TriggersFrom(TriggerStep(resources, triggers[i], funcName, where, roleResource),
                        triggers, i + 1, funcName, where, roleResource)

\* functions.default || {}, of which only triggers is read
TriggerDefaultSetting(fns) ==
    IF DefaultName \in DOMAIN fns /\ ~fns[DefaultName].isNull
      THEN fns[DefaultName].triggers
      ELSE Undefined

\* the list the loop body takes for funcName
ResolveTriggers(fns, funcName) ==
    IF ~fns[funcName].isNull THEN fns[funcName].triggers ELSE TriggerDefaultSetting(fns)

\* the keys of an object in the order for-in visits them
RECURSIVE KeysOf(_)
KeysOf(keys) ==
    IF keys = {}
      THEN <<>>
      ELSE LET k == CHOOSE x \in keys : TRUE IN <<k>> \o KeysOf(keys \ {k})

\* the loop over the manifest, from key n on
RECURSIVE TriggerResourcesFrom(_, _, _, _, _, _)
TriggerResourcesFrom(resources, fns, keys, n, where, roleResource) ==
    IF n > Len(keys)
      THEN resources
      ELSE LET funcName == keys[n]
               triggers == ResolveTriggers(fns, funcName)
           IN  TriggerResourcesFrom(
                   IF funcName = DefaultName \/ triggers = Undefined
                     THEN resources
                     ELSE TriggersFrom(resources, triggers[1], 1, funcName, where,
                                       roleResource),
                   fns, keys, n + 1, where, roleResource)

getTriggerResources(fns, where, roleResource) ==
    TriggerResourcesFrom(EmptyObject, fns, KeysOf(DOMAIN fns), 1, where, roleResource)

----------------------------------------------------------------------------
(* The template document of updateStack *)

RiseAPI == <<"RiseAPI">>
RiseRole == <<"RiseRole">>

\* cf-base.json with Resources.RiseAPI set from cf-restapi.json
getBaseTemplate(stack) ==
    Put(Put(EmptyObject, RiseRole, [type |-> "role"]),
        RiseAPI, [type |-> "restapi", name |-> stack \o <<" API">>])

\* the base template laid over the function fragments
TemplateResources_BaseLast(stack, bucket, fns, uploaded, rts, where) ==
    LET base == getBaseTemplate(stack)
        withFunctions == Assign(getFunctionResources(bucket, fns, uploaded), base)
        withRoutes == Assign(withFunctions, getAPIResources(rts))
    IN  Assign(withRoutes, getTriggerResources(fns, where, withRoutes[RiseRole]))

\* session.aws.cfTemplate.Resources as updateStack assembles it
TemplateResources(stack, bucket, fns, uploaded, rts, where) ==
    LET base == getBaseTemplate(stack)
        withFunctions == Assign(base, getFunctionResources(bucket, fns, uploaded))
        withRoutes == Assign(withFunctions, getAPIResources(rts))
    IN  Assign(withRoutes, getTriggerResources(fns, where, withRoutes[RiseRole]))

----------------------------------------------------------------------------
(* Bucket step: getBucket *)

getBucket ==
    /\ pc = "init"
    /\ calls' = <<Call("headBucket", <<bucketName>>)>>
    /\ pc' = "headBucket"
    /\ UNCHANGED <<state, hist, functions, framework, synthesis, reply, result, tolerated, transfers,
                   tempFiles, listed, pings>>

headBucketThen ==
    /\ Handle("headBucket", TRUE)
    /\ SetState("FETCHED_BUCKET")
    /\ pc' = "bucketDone"
    /\ result' = Resolved("getBucket")
    /\ UNCHANGED <<functions, framework, synthesis, calls, tolerated, transfers, tempFiles, listed, pings>>

\* getBucket creating the bucket on every headBucket error
headBucketCatch_AnyCode ==
    /\ Handle("headBucket", FALSE)
    /\ calls' = Append(calls, Call("createBucket", <<bucketName, region>>))
    /\ pc' = "createBucket"
    /\ UNCHANGED <<state, hist, functions, framework, synthesis, result, tolerated, transfers, tempFiles,
                   listed, pings>>

\* getBucket creating the bucket without the session region
headBucketCatch_NoRegion ==
    /\ Handle("headBucket", FALSE)
    /\ IF reply[1].err.code = "NotFound"
         THEN /\ calls' = Append(calls, Call("createBucket", <<bucketName>>))
              /\ pc' = "createBucket"
              /\ UNCHANGED result
         ELSE /\ Reject("getBucket", reply[1].err)
              /\ UNCHANGED calls
    /\ UNCHANGED <<state, hist, functions, framework, synthesis, tolerated, transfers, tempFiles, listed, pings>>

headBucketCatch ==
    /\ Handle("headBucket", FALSE)
    /\ IF reply[1].err.code = "NotFound"
         THEN /\ calls' = Append(calls, Call("createBucket", <<bucketName, region>>))
              /\ pc' = "createBucket"
              /\ UNCHANGED result
         ELSE /\ Reject("getBucket", reply[1].err)
              /\ UNCHANGED calls
    /\ UNCHANGED <<state, hist, functions, framework, synthesis, tolerated, transfers, tempFiles, listed, pings>>

createBucketThen ==
    /\ Handle("createBucket", TRUE)
    /\ SetState("CREATED_BUCKET")
    /\ pc' = "bucketDone"
    /\ result' = Resolved("getBucket")
    /\ UNCHANGED <<functions, framework, synthesis, calls, tolerated, transfers, tempFiles, listed, pings>>

createBucketCatch ==
    /\ Handle("createBucket", FALSE)
    /\ Reject("getBucket", reply[1].err)
    /\ UNCHANGED <<state, hist, functions, framework, synthesis, calls, tolerated, transfers, tempFiles, listed, pings>>

----------------------------------------------------------------------------
(* Stack step: getStack *)

getStack ==
    /\ pc = "bucketDone"
    /\ calls' = <<Call("describeStacks", <<stackName>>)>>
    /\ pc' = "describeStacks"
    /\ UNCHANGED <<state, hist, functions, framework, synthesis, reply, result, tolerated, transfers,
                   tempFiles, listed, pings>>

describeStacksThen ==
    /\ Handle("describeStacks", TRUE)
    /\ SetState("FETCHED_STACK")
    /\ pc' = "stackDone"
    /\ result' = Resolved("getStack")
    /\ UNCHANGED <<functions, framework, synthesis, calls, tolerated, transfers, tempFiles, listed, pings>>

\* getStack creating the stack on every describeStacks error
describeStacksCatch_AnyError ==
    /\ Handle("describeStacks", FALSE)
    /\ calls' = Append(calls, Call("createStack", <<stackName>>))
    /\ pc' = "createStack"
    /\ UNCHANGED <<state, hist, functions, framework, synthesis, result, tolerated, transfers, tempFiles,
                   listed, pings>>

describeStacksCatch ==
    /\ Handle("describeStacks", FALSE)
    /\ IF HasMessage(reply[1].err) /\ Contains(reply[1].err.message, DoesNotExist)
         THEN /\ calls' = Append(calls, Call("createStack", <<stackName>>))
              /\ pc' = "createStack"
              /\ UNCHANGED result
         ELSE /\ Reject("getStack", reply[1].err)
              /\ UNCHANGED calls
    /\ UNCHANGED <<state, hist, functions, framework, synthesis, tolerated, transfers, tempFiles, listed, pings>>

\* getStack recording CREATED without waiting for the stack to converge
createStackThen_NoWait ==
    /\ Handle("createStack", TRUE)
    /\ SetState("CREATED")
    /\ pc' = "stackDone"
    /\ result' = Resolved("getStack")
    /\ UNCHANGED <<functions, framework, synthesis, calls, tolerated, transfers, tempFiles, listed, pings>>

createStackThen ==
    /\ Handle("createStack", TRUE)
    /\ calls' = Append(calls, Call("waitFor", <<<<"stackCreateComplete">>, stackName>>))
    /\ pc' = "waitCreate"
    /\ UNCHANGED <<state, hist, functions, framework, synthesis, result, tolerated, transfers, tempFiles, listed, pings>>

createStackCatch ==
    /\ Handle("createStack", FALSE)
    /\ Reject("getStack", reply[1].err)
    /\ UNCHANGED <<state, hist, functions, framework, synthesis, calls, tolerated, transfers, tempFiles, listed, pings>>

waitCreateThen ==
    /\ Handle("waitCreate", TRUE)
    /\ SetState("CREATED")
    /\ pc' = "stackDone"
    /\ result' = Resolved("getStack")
    /\ UNCHANGED <<functions, framework, synthesis, calls, tolerated, transfers, tempFiles, listed, pings>>

waitCreateCatch ==
    /\ Handle("waitCreate", FALSE)
    /\ Reject("getStack", reply[1].err)
    /\ UNCHANGED <<state, hist, functions, framework, synthesis, calls, tolerated, transfers, tempFiles, listed, pings>>

----------------------------------------------------------------------------
(* Upload step: uploadFunctions *)

uploadFunctions ==
    /\ pc = "stackDone"
    /\ SetState("UPLOADING")
    /\ transfers' = [p \in Packages |-> "pending"]
    /\ calls' = [p \in Packages |-> Call("putObject", <<bucketName>>)]
    /\ pc' = "upload"
    /\ UNCHANGED <<functions, framework, synthesis, reply, result, tolerated, tempFiles, listed, pings>>

\* the step's outcome decided by the transfer that settles last
putObjectSettle_LastDecides ==
    \E p \in Packages, ok \in BOOLEAN :
        /\ transfers[p] = "pending"
        /\ transfers' = [transfers EXCEPT ![p] = IF ok THEN "ok" ELSE "failed"]
        /\ tempFiles' = tempFiles \ {p}
        /\ IF ~ok
             THEN /\ SetState("UPLOAD_FAILED")
                  /\ Reject("uploadFunctions", TransferError)
             ELSE IF \A q \in Packages : transfers'[q] # "pending"
                    THEN /\ SetState("UPLOADED")
                         /\ pc' = "uploadDone"
                         /\ result' = Resolved("uploadFunctions")
                    ELSE UNCHANGED <<state, hist, pc, result>>
        /\ UNCHANGED <<functions, framework, synthesis, calls, reply, tolerated, listed, pings>>

\* the temp file removed only after a successful transfer
putObjectSettle_KeepOnFailure ==
    \E p \in Packages, ok \in BOOLEAN :
        /\ transfers[p] = "pending"
        /\ transfers' = [transfers EXCEPT ![p] = IF ok THEN "ok" ELSE "failed"]
        /\ tempFiles' = IF ok THEN tempFiles \ {p} ELSE tempFiles
        /\ IF pc # "upload"
             THEN UNCHANGED <<state, hist, pc, result>>
             ELSE IF ~ok
                    THEN /\ SetState("UPLOAD_FAILED")
                         /\ Reject("uploadFunctions", TransferError)
                    ELSE IF \A q \in Packages : transfers'[q] = "ok"
                           THEN /\ SetState("UPLOADED")
                                /\ pc' = "uploadDone"
                                /\ result' = Resolved("uploadFunctions")
                           ELSE UNCHANGED <<state, hist, pc, result>>
        /\ UNCHANGED <<functions, framework, synthesis, calls, reply, tolerated, listed, pings>>

\* a rejected transfer cancelling the transfers still in flight
putObjectSettle_Cancels ==
    \E p \in Packages, ok \in BOOLEAN :
        /\ transfers[p] = "pending"
        /\ transfers' = IF ok THEN [transfers EXCEPT ![p] = "ok"]
                        ELSE [q \in Packages |->
                                IF q = p THEN "failed"
                                ELSE IF transfers[q] = "pending" THEN "cancelled"
                                ELSE transfers[q]]
        /\ tempFiles' = tempFiles \ {p}
        /\ IF pc # "upload"
             THEN UNCHANGED <<state, hist, pc, result>>
             ELSE IF ~ok
                    THEN /\ SetState("UPLOAD_FAILED")
                         /\ Reject("uploadFunctions", TransferError)
                    ELSE IF \A q \in Packages : transfers'[q] = "ok"
                           THEN /\ SetState("UPLOADED")
                                /\ pc' = "uploadDone"
                                /\ result' = Resolved("uploadFunctions")
                           ELSE UNCHANGED <<state, hist, pc, result>>
        /\ UNCHANGED <<functions, framework, synthesis, calls, reply, tolerated, listed, pings>>

\* one transfer settles; its temp file is removed whatever the outcome
putObjectSettle ==
    \E p \in Packages, ok \in BOOLEAN :
        /\ transfers[p] = "pending"
        /\ transfers' = [transfers EXCEPT ![p] = IF ok THEN "ok" ELSE "failed"]
        /\ tempFiles' = tempFiles \ {p}
        /\ IF pc # "upload"
             THEN UNCHANGED <<state, hist, pc, result>>
             ELSE IF ~ok
                    THEN /\ SetState("UPLOAD_FAILED")
                         /\ Reject("uploadFunctions", TransferError)
                    ELSE IF \A q \in Packages : transfers'[q] = "ok"
                           THEN /\ SetState("UPLOADED")
                                /\ pc' = "uploadDone"
                                /\ result' = Resolved("uploadFunctions")
                           ELSE UNCHANGED <<state, hist, pc, result>>
        /\ UNCHANGED <<functions, framework, synthesis, calls, reply, tolerated, listed, pings>>

----------------------------------------------------------------------------
(* Update step: updateStack, waitForUpdate *)

\* updateStack submitting without session.state = 'UPDATING'
updateStack_NoTag ==
    /\ pc = "uploadDone"
    /\ cfTemplate' = <<TemplateResources(stackName, bucketName, functions,
                                          compressedFunctions, routes, region)>>
    /\ methodCalls' = BuildRoutes(routes).log
    /\ resourceCalls' = BuildRoutes(routes).attached
    /\ calls' = <<Call("updateStack", <<stackName>>)>>
    /\ pc' = "updateStack"
    /\ UNCHANGED <<state, hist, functions, framework, compressedFunctions, routes, reply, result,
                   tolerated, transfers, tempFiles, listed, pings>>

updateStack ==
    /\ pc = "uploadDone"
    /\ cfTemplate' = <<TemplateResources(stackName, bucketName, functions,
                                          compressedFunctions, routes, region)>>
    /\ methodCalls' = BuildRoutes(routes).log
    /\ resourceCalls' = BuildRoutes(routes).attached
    /\ SetState("UPDATING")
    /\ calls' = <<Call("updateStack", <<stackName>>)>>
    /\ pc' = "updateStack"
    /\ UNCHANGED <<functions, framework, compressedFunctions, routes, reply, result, tolerated,
                   transfers, tempFiles, listed, pings>>

\* .then(function() { return waitForUpdate(session); })
updateStackThen ==
    /\ Handle("updateStack", TRUE)
    /\ calls' = Append(calls, Call("waitFor", <<<<"stackUpdateComplete">>, stackName>>))
    /\ pc' = "waitUpdate"
    /\ UNCHANGED <<state, hist, functions, framework, synthesis, result, tolerated, transfers, tempFiles, listed, pings>>

\* waitForUpdate resolving without session.state = 'UPDATED'
waitForUpdateThen_NoTag ==
    /\ Handle("waitUpdate", TRUE)
    /\ pc' = "updateDone"
    /\ result' = Resolved("updateStack")
    /\ UNCHANGED <<state, hist, functions, framework, synthesis, calls, tolerated, transfers, tempFiles,
                   listed, pings>>

\* the .then of waitForUpdate
waitForUpdateThen ==
    /\ Handle("waitUpdate", TRUE)
    /\ SetState("UPDATED")
    /\ pc' = "updateDone"
    /\ result' = Resolved("updateStack")
    /\ UNCHANGED <<functions, framework, synthesis, calls, tolerated, transfers, tempFiles, listed, pings>>

\* the not-ready test with === in place of !==
CatchBranch_StateEq(st, err) ==
    IF HasMessage(err) /\ Contains(err.message, NoUpdates)
      THEN "noUpdates"
      ELSE IF HasMessage(err) /\ st = "UPDATING" /\ Contains(err.message, NotReady)
             THEN "notReady"
             ELSE "reject"

\* the catch without its 'No updates are to be performed' branch
CatchBranch_NoUpdatesRejects(st, err) ==
    IF HasMessage(err) /\ st # "UPDATING" /\ Contains(err.message, NotReady)
      THEN "notReady"
      ELSE "reject"

\* the catch resolving on every error that has a message
CatchBranch_AnyMessage(st, err) ==
    IF HasMessage(err) THEN "noUpdates" ELSE "reject"

\* which branch the .catch of updateStack takes on err with session.state = st
CatchBranch(st, err) ==
    IF HasMessage(err) /\ Contains(err.message, NoUpdates)
      THEN "noUpdates"
      ELSE IF HasMessage(err) /\ st # "UPDATING" /\ Contains(err.message, NotReady)
             THEN "notReady"
             ELSE "reject"

\* the .catch starting the wait on the error it tolerates
updateStackCatch_StartsWait ==
    /\ \E op \in {"updateStack", "waitUpdate"} : Handle(op, FALSE)
    /\ LET branch == CatchBranch(state, reply[1].err)
       IN IF branch = "reject"
            THEN /\ Reject("updateStack", reply[1].err)
                 /\ UNCHANGED <<tolerated, calls>>
            ELSE /\ pc' = "updateDone"
                 /\ result' = Resolved("updateStack")
                 /\ tolerated' = branch
                 /\ calls' = Append(calls, Call("waitFor", <<<<"stackUpdateComplete">>, stackName>>))
    /\ UNCHANGED <<state, hist, functions, framework, synthesis, transfers, tempFiles, listed, pings>>

\* the .catch of updateStack: a rejected submission or a rejected wait
updateStackCatch ==
    /\ \E op \in {"updateStack", "waitUpdate"} : Handle(op, FALSE)
    /\ LET branch == CatchBranch(state, reply[1].err)
       IN IF branch = "reject"
            THEN /\ Reject("updateStack", reply[1].err)
                 /\ UNCHANGED tolerated
            ELSE /\ pc' = "updateDone"
                 /\ result' = Resolved("updateStack")
                 /\ tolerated' = branch
    /\ UNCHANGED <<state, hist, functions, framework, synthesis, calls, transfers, tempFiles, listed, pings>>

----------------------------------------------------------------------------
(* Ping step: pingFunctions, pingPromiseAll, pingPromise *)

\* the loop of pingFunctions over Object.keys(session.functions)
FunctionNamesToPing(fns) ==
    {name \in DOMAIN fns : ~(~fns[name].isNull /\ fns[name].bare)}

\* the promises pingPromiseAll pushes: one per listed function and matching name
PingPromises(uploadedFunctionNames, deployed) ==
    {<<f, name>> \in deployed \X uploadedFunctionNames :
        StartsWith(f, stackName \o <<"-">> \o name)}

\* pingPromise testing the status code alone
PingOk_StatusOnly(data) == ~data.failed /\ ~(data.StatusCode # OkStatus)

\* the test of pingPromise on the data of one invocation
PingOk(data) ==
    ~data.failed /\ ~(data.StatusCode # OkStatus \/ data.Payload # OkPayload)

pingFunctions ==
    /\ pc = "updateDone"
    /\ SetState("PINGING")
    /\ calls' = <<Call("listFunctions", <<>>)>>
    /\ pc' = "listFunctions"
    /\ UNCHANGED <<functions, framework, synthesis, reply, result, tolerated, transfers, tempFiles, listed, pings>>

\* the .then of listFunctions: every invocation is started; Promise.all of none resolves
listFunctionsThen ==
    /\ Handle("listFunctions", TRUE)
    /\ LET promises == PingPromises(FunctionNamesToPing(functions), reply[1].data)
       IN /\ listed' = <<reply[1].data>>
          /\ pings' = [pr \in promises |-> Pending]
          /\ IF promises = {}
               THEN /\ SetState("PINGED")
                    /\ pc' = "resolved"
                    /\ result' = Resolved("pingFunctions")
               ELSE /\ pc' = "invoke"
                    /\ UNCHANGED <<state, hist, result>>
    /\ UNCHANGED <<functions, framework, synthesis, calls, tolerated, transfers, tempFiles>>

\* listFunctions rejects: nothing catches it
listFunctionsCatch ==
    /\ Handle("listFunctions", FALSE)
    /\ Reject("pingFunctions", reply[1].err)
    /\ UNCHANGED <<state, hist, functions, framework, synthesis, calls, tolerated, transfers, tempFiles, listed, pings>>

\* Promise.all settling again after its rejection: the last fulfilment resolves
invokeSettle_SettlesAgain ==
    \E pr \in DOMAIN pings, data \in InvokeReplies :
        /\ pings[pr] = Pending
        /\ pings' = [pings EXCEPT ![pr] = data]
        /\ IF pc \notin {"invoke", "rejected"}
             THEN UNCHANGED <<state, hist, pc, result>>
             ELSE IF ~PingOk(data)
                    THEN /\ Reject("pingFunctions",
                                   IF data.failed THEN InvokeError ELSE NotDeployedProperly)
                         /\ UNCHANGED <<state, hist>>
                    ELSE IF \A q \in DOMAIN pings : pings'[q] # Pending
                           THEN /\ SetState("PINGED")
                                /\ pc' = "resolved"
                                /\ result' = Resolved("pingFunctions")
                           ELSE UNCHANGED <<state, hist, pc, result>>
        /\ UNCHANGED <<functions, framework, synthesis, calls, reply, tolerated, transfers, tempFiles, listed>>

\* one invocation settles; Promise.all rejects on the first rejection and resolves
\* on the last fulfilment
invokeSettle ==
    \E pr \in DOMAIN pings, data \in InvokeReplies :
        /\ pings[pr] = Pending
        /\ pings' = [pings EXCEPT ![pr] = data]
        /\ IF pc # "invoke"
             THEN UNCHANGED <<state, hist, pc, result>>
             ELSE IF ~PingOk(data)
                    THEN /\ Reject("pingFunctions",
                                   IF data.failed THEN InvokeError ELSE NotDeployedProperly)
                         /\ UNCHANGED <<state, hist>>
                    ELSE IF \A q \in DOMAIN pings : pings'[q] # Pending
                           THEN /\ SetState("PINGED")
                                /\ pc' = "resolved"
                                /\ result' = Resolved("pingFunctions")
                           ELSE UNCHANGED <<state, hist, pc, result>>
        /\ UNCHANGED <<functions, framework, synthesis, calls, reply, tolerated, transfers, tempFiles, listed>>

----------------------------------------------------------------------------
(* Middleware: Stack.run, Stack._run with its nextFn, Stack._defaultErrorHandler. *)
(* A middleware is known by fn.length; what it does when invoked is its own     *)
(* choice: call next or keep it for later, once; send the response; throw; return. *)

\* fn.length of a middleware and of an error-handling middleware
Arities == {3, 4}

MiddlewareStacks == SeqsUpTo(Arities, MaxMiddlewares)

\* stack[i] of a JavaScript array: undefined beyond its end
HasFn(stk, i) == i < Len(stk)
FnLength(stk, i) == stk[i + 1]

\* the do-while loops of nextFn: the index at which they stop, past the end of the
\* stack when no middleware of the wanted kind is left
RECURSIVE Advance(_, _, _)
Advance(stk, idx, isErr) ==
    LET i == idx + 1
    IN  IF ~HasFn(stk, i)
          THEN i
          ELSE IF isErr
                 THEN IF FnLength(stk, i) < 4 THEN Advance(stk, i, isErr) ELSE i
                 ELSE IF FnLength(stk, i) > 3 THEN Advance(stk, i, isErr) ELSE i

\* the try block of _run for run r: fn = stack[currIndex'] is called, with err only
\* when it declares four parameters
Invoke(r, err, callers, invs) ==
    /\ invocations' = Append(invs, [run |-> r, pos |-> currIndex',
                                    err |-> IF FnLength(middlewares, currIndex') < 4
                                              THEN Undefined ELSE err,
                                    nexts |-> 0, raises |-> 0])
    /\ frames' = Append(callers, Len(invs) + 1)

\* _defaultErrorHandler(err, req, res): the error is logged, and 500 is sent unless
\* the response is finished
DefaultErrorHandler(r, err) ==
    /\ defaults' = Append(defaults, [run |-> r, err |-> err, sent |-> ~finished[r]])
    /\ finished' = [finished EXCEPT ![r] = TRUE]

\* nextFn(err) of run r, called with the invocations callers executing and the
\* invocation log invs: _currIndex moves on, and the middleware found there is run
NextFn(r, err, callers, invs) ==
    /\ currIndex' = Advance(middlewares, currIndex, err # Undefined)
    /\ IF ~HasFn(middlewares, currIndex')
         THEN /\ frames' = callers
              /\ invocations' = invs
              /\ IF err # Undefined
                   THEN DefaultErrorHandler(r, err)
                   ELSE UNCHANGED <<defaults, finished>>
         ELSE /\ Invoke(r, err, callers, invs)
              /\ UNCHANGED <<defaults, finished>>

\* the error of run r that is waiting for a handler, after invocation caller has
\* called next(err)
PendingAfter(r, err, caller) ==
    IF err # Undefined
      THEN [pendingErr EXCEPT ![r] = <<Len(invocations)>>]
      ELSE IF /\ pendingErr[r] # Undefined
              /\ caller > pendingErr[r][1]
              /\ FnLength(middlewares, invocations[caller].pos) > 3
             THEN [pendingErr EXCEPT ![r] = Undefined]
             ELSE pendingErr

\* the invocation log after invocation caller has called next(err)
Called(caller, err) ==
    [invocations EXCEPT ![caller].nexts = @ + 1,
                        ![caller].raises = IF err # Undefined THEN @ + 1 ELSE @]

\* the invocation that is executing now
Top == frames[Len(frames)]

\* the invocations that called the executing one, directly or not
Callers == SubSeq(frames, 1, Len(frames) - 1)

\* the next callbacks invocation i keeps for later
KeptBy(i) == {d \in deferred : d.inv = i}

\* what the executing invocation may pass to next: nothing, or an error of its own
ErrorsOf(i) == {Undefined, <<invocations[i].pos>>}

\* run(req, res), called when no middleware is executing: _currIndex = 0, then _run
run ==
    /\ frames = <<>>
    /\ started < requests
    /\ started' = started + 1
    /\ currIndex' = 0
    /\ IF ~HasFn(middlewares, currIndex')
         THEN UNCHANGED <<frames, invocations>>
         ELSE Invoke(started', Undefined, frames, invocations)
    /\ UNCHANGED <<functions, chain, synthesis, middlewares, requests, deferred, defaults, finished,
                   pendingErr, responding, legacy>>

\* the executing middleware calls next(err)
mwNext ==
    /\ frames # <<>>
    /\ invocations[Top].nexts = 0 /\ KeptBy(Top) = {}
    /\ \E err \in ErrorsOf(Top) :
          /\ NextFn(invocations[Top].run, err, frames, Called(Top, err))
          /\ pendingErr' = PendingAfter(invocations[Top].run, err, Top)
    /\ UNCHANGED <<functions, chain, synthesis, middlewares, requests, started, deferred, responding,
                   legacy>>

\* the executing middleware keeps next for a callback that runs later
mwKeepNext ==
    /\ frames # <<>>
    /\ invocations[Top].nexts = 0 /\ KeptBy(Top) = {}
    /\ \E err \in ErrorsOf(Top) :
          /\ deferred' = deferred \cup {[inv |-> Top, err |-> err]}
    /\ UNCHANGED <<functions, chain, synthesis, middlewares, requests, currIndex, started, frames,
                   invocations, defaults, finished, pendingErr, responding, legacy>>

\* the executing middleware sends the response
mwSend ==
    /\ frames # <<>>
    /\ ~finished[invocations[Top].run]
    /\ finished' = [finished EXCEPT ![invocations[Top].run] = TRUE]
    /\ UNCHANGED <<functions, chain, synthesis, middlewares, requests, currIndex, started, frames,
                   deferred, invocations, defaults, pendingErr, responding, legacy>>

\* the executing middleware returns to its caller
mwReturn ==
    /\ frames # <<>>
    /\ frames' = Callers
    /\ UNCHANGED <<functions, chain, synthesis, middlewares, requests, currIndex, started, deferred,
                   invocations, defaults, finished, pendingErr, responding, legacy>>

\* the executing middleware throws: the catch of _run calls nextFn(err)
mwThrow ==
    /\ frames # <<>>
    /\ LET err == <<invocations[Top].pos>>
           invs == [invocations EXCEPT ![Top].raises = @ + 1]
       IN  /\ NextFn(invocations[Top].run, err, Callers, invs)
           /\ pendingErr' = PendingAfter(invocations[Top].run, err, Top)
    /\ UNCHANGED <<functions, chain, synthesis, middlewares, requests, started, deferred, responding,
                   legacy>>

\* a kept next callback is called, no middleware executing
keptNext ==
    /\ frames = <<>>
    /\ \E d \in deferred :
          /\ deferred' = deferred \ {d}
          /\ NextFn(invocations[d.inv].run, d.err, frames, Called(d.inv, d.err))
          /\ pendingErr' = PendingAfter(invocations[d.inv].run, d.err, d.inv)
    /\ UNCHANGED <<functions, chain, synthesis, middlewares, requests, started, responding, legacy>>

----------------------------------------------------------------------------
(* Response: status, type, send, json, end, and the done callback.  The body is *)
(* the sequence of the pieces written to it; a piece is a text, as it is or as   *)
(* JSON.stringify renders it.                                                    *)

\* the status code of a response whose status was never set
DefaultStatusCode == 200
\* the status code whose response carries no body
NoContent == 204

StatusCodes == {NoContent, 404}

\* the arguments of send and json: a string, an object, undefined, and a function,
\* which is none of the types send supports
Bodies == [kind : {"string", "object"}, text : {"a"}]
            \cup {[kind |-> "undefined", text |-> ""], [kind |-> "function", text |-> ""]}

\* the data argument of end: none, or a string
EndData == {Undefined, <<"d">>}

Piece(text) == [text |-> text, json |-> FALSE]
\* JSON.stringify(body)
JsonStringify(body) == [text |-> body.text, json |-> TRUE]

\* new Response({done}) and new Response({})
NewResponse(hasDone) ==
    [statusCode |-> Undefined, finished |-> FALSE, contentType |-> Undefined,
     body |-> <<>>, hasDone |-> hasDone]

\* if (!this.get('Content-Type')) this.type(t)
WithType(r, t) == IF r.contentType = Undefined THEN [r EXCEPT !.contentType = <<t>>] ELSE r

\* what done receives: {statusCode, headers, body}
Payload(r) ==
    [statusCode |-> IF r.statusCode # Undefined THEN r.statusCode[1] ELSE DefaultStatusCode,
     contentType |-> r.contentType,
     body |-> IF r.statusCode = <<NoContent>> THEN <<>> ELSE r.body]

\* how a call on the Response ended, and the Response as it was before the call
Outcome(call, before, threw, returned) ==
    [call |-> call, before |-> before, threw |-> threw, returned |-> returned]

\* end(data) calling done also on a finished Response
EndOn_NoGuard(call, before, r, data) ==
    LET written == IF data # Undefined THEN [r EXCEPT !.body = Append(@, Piece(data[1]))] ELSE r
    IN  IF ~written.hasDone
          THEN /\ response' = <<written>>
               /\ outcome' = <<Outcome(call, before, "nothing", "false")>>
               /\ UNCHANGED doneCalls
          ELSE /\ doneCalls' = Append(doneCalls, Payload(written))
               /\ response' = <<[written EXCEPT !.finished = TRUE]>>
               /\ outcome' = <<Outcome(call, before, "nothing",
                                       IF call = "end" THEN "true" ELSE "this")>>

\* end(data) on the Response r, reached from call, the Response having been before
\* when call started: data is written, then a finished Response throws, then the
\* payload goes to done if there is one
EndOn(call, before, r, data) ==
    LET written == IF data # Undefined THEN [r EXCEPT !.body = Append(@, Piece(data[1]))] ELSE r
    IN  IF written.finished
          THEN /\ response' = <<written>>
               /\ outcome' = <<Outcome(call, before, "Response is already ended", "nothing")>>
               /\ UNCHANGED doneCalls
          ELSE IF ~written.hasDone
                 THEN /\ response' = <<written>>
                      /\ outcome' = <<Outcome(call, before, "nothing", "false")>>
                      /\ UNCHANGED doneCalls
                 ELSE /\ doneCalls' = Append(doneCalls, Payload(written))
                      /\ response' = <<[written EXCEPT !.finished = TRUE]>>
                      /\ outcome' = <<Outcome(call, before, "nothing",
                                              IF call = "end" THEN "true" ELSE "this")>>

\* the Response after the switch of send(body)
Sent(r, body) ==
    CASE body.kind = "string" -> [WithType(r, "html") EXCEPT !.body = <<Piece(body.text)>>]
      [] body.kind = "object" -> [WithType(r, "json") EXCEPT !.body = <<JsonStringify(body)>>]
      [] OTHER -> r

\* status(code)
status ==
    /\ response # <<>>
    /\ \E code \in StatusCodes :
          /\ response' = <<[response[1] EXCEPT !.statusCode = <<code>>]>>
          /\ outcome' = <<Outcome("status", response[1], "nothing", "this")>>
    /\ UNCHANGED <<functions, chain, synthesis, middleware, doneCalls, legacy>>

\* send(body)
send ==
    /\ response # <<>>
    /\ \E body \in Bodies :
          IF body.kind = "function"
            THEN /\ outcome' = <<Outcome("send", response[1], "Unsupported type for 'body'",
                                         "nothing")>>
                 /\ UNCHANGED <<response, doneCalls>>
            ELSE EndOn("send", response[1], Sent(response[1], body), Undefined)
    /\ UNCHANGED <<functions, chain, synthesis, middleware, legacy>>

\* json(body)
json ==
    /\ response # <<>>
    /\ \E body \in {b \in Bodies : b.kind \in {"string", "object"}} :
          EndOn("json", response[1],
                [WithType(response[1], "json") EXCEPT !.body = <<JsonStringify(body)>>],
                Undefined)
    /\ UNCHANGED <<functions, chain, synthesis, middleware, legacy>>

\* end(data)
end ==
    /\ response # <<>>
    /\ \E data \in EndData :
          /\ data # Undefined => Len(response[1].body) < MaxPieces
          /\ EndOn("end", response[1], response[1], data)
    /\ UNCHANGED <<functions, chain, synthesis, middleware, legacy>>

----------------------------------------------------------------------------
(* The legacy DeployFunctions: one stack template built from three template      *)
(* files.  A text is a sequence of pieces; a piece is a sequence of strings: a    *)
(* placeholder, a value put in its place, or the characters of a name.            *)

\* const version = '0.0.2'
LegacyVersion == "0.0.2"

\* the reserved name the loop skips
DefaultPath == <<"default">>

\* path.sep
Sep == "/"

LegacyPaths == {DefaultPath, <<"f">>, <<Sep, "g">>}
LegacyHandlers == {<<"h1">>, <<"h2">>}
\* a timeout as String.replace writes it into the text
LegacyTimeouts == {<<"3">>, <<"30">>}

LegacyFunction == [path : LegacyPaths, handler : LegacyHandlers, timeout : LegacyTimeouts]

\* the manifests: functions in the order of Object.keys, no key twice
LegacyManifests ==
    {m \in SeqsUpTo(LegacyFunction, MaxLegacyFunctions) :
        \A i, j \in DOMAIN m : m[i].path = m[j].path => i = j}

\* the three template files; the function template names its handler once or twice
TemplateFiles ==
    {[function |-> fn, version |-> <<<<"$FUNCTION_NAME">>>>, output |-> <<<<"$FUNCTION_NAME">>>>] :
        fn \in {<<<<"$HANDLER">>, <<"$S3KEY">>, <<"$TIMEOUT">>>>,
                <<<<"$HANDLER">>, <<"$S3KEY">>, <<"$TIMEOUT">>, <<"$HANDLER">>>>}}

\* str.replace(pattern, value) with a string pattern: the first occurrence only
RECURSIVE Replace(_, _, _)
Replace(text, placeholder, value) ==
    IF text = <<>> THEN <<>>
    ELSE IF Head(text) = placeholder THEN <<value>> \o Tail(text)
    ELSE <<Head(text)>> \o Replace(Tail(text), placeholder, value)

\* funcPath.replace(path.sep, '')
FuncName(funcPath) == Replace(funcPath, Sep, "")

\* funcName + '-' + version + '.zip'
S3Key(funcName) == funcName \o <<"-", LegacyVersion, ".zip">>

\* the function template with the values of func in the place of its placeholders
FunctionContent(content, func) ==
    Replace(Replace(Replace(content, <<"$HANDLER">>, func.handler),
                    <<"$S3KEY">>, S3Key(FuncName(func.path))),
            <<"$TIMEOUT">>, func.timeout)

\* DeployFunctions is called: the template files are read, the loop is at i = 0
legacyDeployFunctions ==
    /\ legacyFunctions # <<>>
    /\ legacyTemplate = <<>>
    /\ \E files \in TemplateFiles :
          legacyTemplate' = <<[files |-> files,
                               cfFunctionContent |-> files.function,
                               cfFunctionVersionContent |-> files.version,
                               cfFunctionArnOutputContent |-> files.output,
                               i |-> 0, Resources |-> EmptyObject, Outputs |-> EmptyObject,
                               sent |-> FALSE]>>
    /\ UNCHANGED <<functions, chain, synthesis, middleware, responding, legacyFunctions>>

\* one turn of the loop over funcPaths
legacyLoop ==
    /\ legacyTemplate # <<>>
    /\ legacyTemplate[1].i < Len(legacyFunctions[1])
    /\ LET t == legacyTemplate[1]
           func == legacyFunctions[1][t.i + 1]
           funcName == FuncName(func.path)
           fn == FunctionContent(t.cfFunctionContent, func)
           ver == Replace(t.cfFunctionVersionContent, <<"$FUNCTION_NAME">>, funcName)
           out == Replace(t.cfFunctionArnOutputContent, <<"$FUNCTION_NAME">>, funcName)
       IN  IF func.path = DefaultPath
             THEN legacyTemplate' = <<[t EXCEPT !.i = @ + 1]>>
             ELSE legacyTemplate' =
                    <<[t EXCEPT !.i = @ + 1,
                                !.cfFunctionContent = fn,
                                !.cfFunctionVersionContent = ver,
                                !.cfFunctionArnOutputContent = out,
                                !.Resources = Put(Put(@, funcName, fn),
                                                  funcName \o <<"Version">>, ver),
                                !.Outputs = Put(@, funcName, out)]>>
    /\ UNCHANGED <<functions, chain, synthesis, middleware, responding, legacyFunctions>>

\* cf.updateStack with the template, after the loop
legacyUpdateStack ==
    /\ legacyTemplate # <<>>
    /\ legacyTemplate[1].i = Len(legacyFunctions[1])
    /\ ~legacyTemplate[1].sent
    /\ legacyTemplate' = <<[legacyTemplate[1] EXCEPT !.sent = TRUE]>>
    /\ UNCHANGED <<functions, chain, synthesis, middleware, responding, legacyFunctions>>

----------------------------------------------------------------------------

(* Claims *)

BucketTags == {"FETCHED_BUCKET", "CREATED_BUCKET"}
StackTags == {"FETCHED_STACK", "CREATED"}

\* the successful path of the state tag, with and without UPDATED
FullPath ==
    {<<"INIT", b, s, "UPLOADING", "UPLOADED", "UPDATING", "UPDATED", "PINGING", "PINGED">> :
        b \in BucketTags, s \in StackTags}
PathWithoutUpdated ==
    {<<"INIT", b, s, "UPLOADING", "UPLOADED", "UPDATING", "PINGING", "PINGED">> :
        b \in BucketTags, s \in StackTags}

\* the update step has received a rejection its catch has not yet handled
UpdateRejection ==
    pc \in {"updateStack", "waitUpdate"} /\ reply # <<>> /\ ~reply[1].ok

IsNoUpdates(e) == e.hasMessage /\ e.message # <<>> /\ Contains(e.message, NoUpdates)
IsNotReady(e) == e.hasMessage /\ e.message # <<>> /\ Contains(e.message, NotReady)

\* C1 (as stated): on every deploy whose ping step resolved, session.state took the
\* values INIT, a bucket tag, a stack tag, UPLOADING, UPLOADED, UPDATING, UPDATED,
\* PINGING, PINGED in that order, none skipped.
C1_FullPathOnSuccess == pc = "resolved" => hist \in FullPath

\* C1 (amended): on every deploy whose ping step resolved, session.state took those
\* values in that order, and UPDATED is skipped exactly when the update step resolved
\* on a tolerated error instead of a converged wait.
C1_PathOnSuccess ==
    pc = "resolved" =>
        IF tolerated = "none" THEN hist \in FullPath ELSE hist \in PathWithoutUpdated

\* a deploy that succeeded although the update reported no updates
C1_Witness == pc = "resolved" /\ tolerated = "noUpdates" /\ state = "PINGED"

C3_NoUpdatesResolves ==
    [][UpdateRejection /\ IsNoUpdates(reply[1].err)
         => /\ result' = Resolved("updateStack")
            /\ pc' = "updateDone"
            /\ state' = state
            /\ hist' = hist]_vars

\* the wait rejected with no-updates and the step resolved, the tag still UPDATING
C3_Witness ==
    /\ pc = "updateDone"
    /\ tolerated = "noUpdates"
    /\ result = Resolved("updateStack")
    /\ state = "UPDATING"
    /\ Len(calls) = 2

\* C4: a rejection of the submission or of the wait that is neither a no-updates error
\* nor a not-ready error tolerated by the catch (an error without message included)
\* makes updateStack reject with that same error value, and session.state is not
\* UPDATED in that step.
C4_OtherErrorsRejectUnchanged ==
    /\ [][UpdateRejection /\ ~IsNoUpdates(reply[1].err)
            /\ ~(IsNotReady(reply[1].err) /\ state # "UPDATING")
            => /\ result' = Rejected("updateStack", reply[1].err)
               /\ pc' = "rejected"
               /\ state' # "UPDATED"]_vars
    /\ [](result.step = "updateStack" /\ result.kind = "rejected"
            => \A i \in 1..Len(hist) : hist[i] # "UPDATED")

\* the wait rejected with an error that has no message, and the step rejected with it
C4_Witness ==
    /\ result = Rejected("updateStack", Error("Unknown", FALSE, <<>>))
    /\ Len(calls) = 2
    /\ state = "UPDATING"

\* C5 (as stated): after a step failed, session.state is the tag of the last completed
\* step: a failed update step leaves UPLOADED, a failed ping step leaves the tag of the
\* update step; never the failed step's own UPDATING or PINGING.
C5_TagOfLastCompletedStep ==
    /\ result.kind = "rejected" /\ result.step = "updateStack" => state = "UPLOADED"
    /\ result.kind = "rejected" /\ result.step = "pingFunctions"
         => state \in {"UPDATING", "UPDATED"}

\* C5 (amended): after a failed update step session.state is that step's own in-progress
\* tag UPDATING, after a failed ping step it is PINGING; the failed step's completion
\* tag (UPDATED, PINGED) is never set.
C5_TagOfFailedStep ==
    /\ result.kind = "rejected" /\ result.step = "updateStack"
         => state = "UPDATING" /\ hist[Len(hist)] = "UPDATING"
    /\ result.kind = "rejected" /\ result.step = "pingFunctions"
         => state = "PINGING" /\ hist[Len(hist)] = "PINGING"

\* a ping step that failed on its listing after the update converged
C5_Witness ==
    /\ result.kind = "rejected" /\ result.step = "pingFunctions"
    /\ listed = <<>>
    /\ hist[Len(hist) - 1] = "UPDATED"

\* the one response pingPromise accepts
GoodPing == [failed |-> FALSE, StatusCode |-> 200, Payload |-> "{\"test\":\"ok\"}"]

\* C6: session.state is PINGED, and pingFunctions has resolved, exactly when the listing
\* succeeded and every invocation returned status 200 with payload {"test":"ok"}; once
\* one invocation returned anything else or failed, the step has rejected and the
\* state has never been PINGED, whatever the other invocations returned.
C6_PingedIffAllGood ==
    /\ state = "PINGED"
         <=> listed # <<>> /\ \A pr \in DOMAIN pings : pings[pr] = GoodPing
    /\ state = "PINGED" <=> pc = "resolved"
    /\ pc = "resolved" => result = Resolved("pingFunctions")
    /\ (\E pr \in DOMAIN pings : pings[pr] # Pending /\ pings[pr] # GoodPing)
         => /\ result.kind = "rejected" /\ result.step = "pingFunctions"
            /\ pc = "rejected"
            /\ \A i \in 1..Len(hist) : hist[i] # "PINGED"

\* two invocations, one good and one with a wrong body: the step rejected
C6_Witness ==
    /\ \E pr \in DOMAIN pings : pings[pr] = GoodPing
    /\ \E pr \in DOMAIN pings :
          pings[pr] = [failed |-> FALSE, StatusCode |-> 200, Payload |-> BadPayload]
    /\ \A pr \in DOMAIN pings : pings[pr] # Pending
    /\ pc = "rejected"
    /\ state = "PINGING"

\* the deployed function f is the one deployed for manifest entry name of this stack
BelongsTo(f, name) == f = PhysicalName(stackName, name)

IsBare(name) == ~functions[name].isNull /\ functions[name].bare

Invoked == {pr[1] : pr \in DOMAIN pings}

\* C7: the ping step invokes exactly the deployed functions of this stack that belong
\* to manifest entries not marked bare: an invoked function starts with
\* <stackName>-<name> of a non-bare entry, every listed function of a non-bare entry
\* is invoked, and no function that belongs to a bare entry is invoked.
C7_InvokesExactlyNonBare ==
    listed # <<>> =>
        /\ \A f \in Invoked :
              \E name \in DOMAIN functions :
                  ~IsBare(name) /\ StartsWith(f, stackName \o <<"-">> \o name)
        /\ \A f \in listed[1] :
              (\E name \in DOMAIN functions : ~IsBare(name) /\ BelongsTo(f, name))
                  => f \in Invoked
        /\ \A f \in Invoked :
              ~\E name \in DOMAIN functions : IsBare(name) /\ BelongsTo(f, name)

StackStepCalls ==
    <<Call("describeStacks", <<stackName>>),
      Call("createStack", <<stackName>>),
      Call("waitFor", <<<<"stackCreateComplete">>, stackName>>)>>

\* C8: when describeStacks succeeded the stack step's calls are that one call and the
\* state becomes FETCHED_STACK; when it reported not-found they are describeStacks,
\* one createStack, one waitFor stackCreateComplete, in that order, and the state
\* becomes CREATED only on the resolved wait.
C8_StackStep ==
    /\ [][/\ pc = "describeStacks" /\ reply # <<>> /\ reply[1].ok
               => state' = "FETCHED_STACK" /\ calls' = SubSeq(StackStepCalls, 1, 1)
          /\ state' = "FETCHED_STACK" => calls' = SubSeq(StackStepCalls, 1, 1)
          /\ state' = "CREATED" => calls' = StackStepCalls
          /\ state' = "CREATED" /\ state # "CREATED"
               => pc = "waitCreate" /\ reply # <<>> /\ reply[1].ok
          /\ pc = "describeStacks" /\ reply # <<>> /\ ~reply[1].ok
               /\ reply[1].err.hasMessage /\ Contains(reply[1].err.message, DoesNotExist)
               => calls' = SubSeq(StackStepCalls, 1, 2)
          /\ pc = "createStack" /\ reply # <<>> /\ reply[1].ok
               => calls' = StackStepCalls /\ state' = state
          /\ pc = "waitCreate" /\ reply # <<>> /\ reply[1].ok
               => calls' = StackStepCalls /\ state' = "CREATED"]_vars

\* the stack was missing, was created, and the wait for it resolved
C8_Witness == state = "CREATED" /\ pc = "stackDone" /\ calls = StackStepCalls

\* C9: when describeStacks fails with an error other than not-found, the stack step
\* rejects with an error, and neither createStack nor the wait is ever called:
\* describeStacks stays the step's only call.
C9_StackStepOtherError ==
    [][/\ pc = "describeStacks" /\ reply # <<>> /\ ~reply[1].ok
            /\ ~(reply[1].err.hasMessage /\ Contains(reply[1].err.message, DoesNotExist))
            => /\ result'.kind = "rejected" /\ result'.step = "getStack"
               /\ pc' = "rejected"
               /\ calls' = SubSeq(StackStepCalls, 1, 1)
       /\ pc = "rejected" => calls' = calls /\ pc' = "rejected"]_vars

\* the stack step rejected on describeStacks failing with 'some error'
C9_Witness ==
    /\ result = Rejected("getStack", Error("ValidationError", TRUE, <<SomeError>>))
    /\ calls = SubSeq(StackStepCalls, 1, 1)

BucketStepCalls ==
    <<Call("headBucket", <<bucketName>>), Call("createBucket", <<bucketName, region>>)>>

\* C10: the bucket step calls headBucket once with the session bucket name; when it
\* succeeds createBucket is not called and the state becomes FETCHED_BUCKET; when it
\* rejects with code NotFound createBucket is called once, after headBucket, with the
\* bucket name and the session region, and the state becomes CREATED_BUCKET when that
\* call resolves.
C10_BucketStep ==
    [][/\ pc = "init" => calls' = SubSeq(BucketStepCalls, 1, 1)
       /\ pc = "headBucket" /\ reply # <<>> /\ reply[1].ok
            => state' = "FETCHED_BUCKET" /\ calls' = SubSeq(BucketStepCalls, 1, 1)
       /\ pc = "headBucket" /\ reply # <<>> /\ ~reply[1].ok
            /\ reply[1].err.code = "NotFound"
            => calls' = BucketStepCalls /\ pc' = "createBucket"
       /\ pc = "createBucket" /\ reply # <<>> /\ reply[1].ok
            => state' = "CREATED_BUCKET" /\ calls' = BucketStepCalls
       /\ pc' = "bucketDone" /\ state' = "FETCHED_BUCKET"
            => calls' = SubSeq(BucketStepCalls, 1, 1)
       /\ pc' = "bucketDone" /\ state' = "CREATED_BUCKET"
            => calls' = BucketStepCalls]_vars

\* the bucket was missing and was created in the session region
C10_Witness ==
    state = "CREATED_BUCKET" /\ pc = "bucketDone" /\ calls = BucketStepCalls

\* C11: when headBucket rejects with a code other than NotFound, the bucket step rejects
\* with an error, createBucket is never called (headBucket stays the step's only call)
\* and session.state is neither FETCHED_BUCKET nor CREATED_BUCKET: it stays INIT.
C11_BucketStepOtherError ==
    [][/\ pc = "headBucket" /\ reply # <<>> /\ ~reply[1].ok
            /\ reply[1].err.code # "NotFound"
            => /\ result'.kind = "rejected" /\ result'.step = "getBucket"
               /\ pc' = "rejected"
               /\ calls' = SubSeq(BucketStepCalls, 1, 1)
               /\ state' = "INIT" /\ hist' = <<"INIT">>
       /\ pc = "rejected" => calls' = calls /\ state' = state /\ pc' = "rejected"]_vars

\* the bucket step rejected on headBucket failing with OtherError
C11_Witness ==
    /\ result = Rejected("getBucket", Error("OtherError", FALSE, <<>>))
    /\ calls = SubSeq(BucketStepCalls, 1, 1)
    /\ state = "INIT"

InHist(tag) == \E i \in 1..Len(hist) : hist[i] = tag

\* C12: the upload step resolves, with state UPLOADED, only if every transfer succeeded;
\* once a transfer has failed the step has rejected, session.state is UPLOAD_FAILED and
\* stays so in whatever order the transfers settle, and neither the update step nor the
\* ping step is started.
C12_UploadedOnlyIfAllOk ==
    /\ InHist("UPLOADED") => \A p \in Packages : transfers[p] = "ok"
    /\ result = Resolved("uploadFunctions") => \A p \in Packages : transfers[p] = "ok"
    /\ (\E p \in Packages : transfers[p] = "failed")
         => /\ result = Rejected("uploadFunctions", TransferError)
            /\ pc = "rejected"
            /\ state = "UPLOAD_FAILED"
            /\ hist[Len(hist)] = "UPLOAD_FAILED"
            /\ ~InHist("UPLOADED") /\ ~InHist("UPDATING") /\ ~InHist("PINGING")
            /\ \A i \in 1..Len(calls) : calls[i].op = "putObject"

\* one transfer failed and another succeeded: the state is UPLOAD_FAILED
C12_Witness ==
    /\ \E p \in Packages : transfers[p] = "failed"
    /\ \E p \in Packages : transfers[p] = "ok"
    /\ \A p \in Packages : transfers[p] # "pending"
    /\ state = "UPLOAD_FAILED"

UploadSettled == result.step = "uploadFunctions" /\ result.kind # "none"

C14_TransfersRunToCompletion ==
    /\ [](pc = "upload" => \A p \in Packages : transfers[p] # "idle")
    /\ [][\A p \in Packages :
            /\ transfers[p] = "idle" /\ transfers'[p] # "idle"
                 => \A q \in Packages : transfers'[q] = "pending"
            /\ transfers[p] = "pending" => transfers'[p] \in {"pending", "ok", "failed"}
            /\ transfers[p] \in {"ok", "failed"} => transfers'[p] = transfers[p]
            /\ (p \in tempFiles /\ p \notin tempFiles')
                 <=> (transfers[p] = "pending" /\ transfers'[p] # "pending")]_vars
    /\ \A p \in Packages :
          transfers[p] = "pending"
              ~> (transfers[p] \in {"ok", "failed"} /\ p \notin tempFiles)

\* the step failed on one transfer and every transfer has settled, one of them ok
C14_Witness ==
    /\ pc = "rejected" /\ result.step = "uploadFunctions"
    /\ \E p \in Packages : transfers[p] = "ok"
    /\ \A p \in Packages : transfers[p] \in {"ok", "failed"}
    /\ tempFiles = {}

\* the manifest entry of name, if the manifest has one that is not null
HasEntry(name) == name \in DOMAIN functions /\ ~functions[name].isNull

\* own value, else the value of the manifest's default entry, else the built-in
ChainTimeout(f) ==
    OrElse(IF HasEntry(f) THEN functions[f].timeout ELSE Undefined,
           OrElse(IF HasEntry(DefaultName) THEN functions[DefaultName].timeout
                                           ELSE Undefined,
                  <<BuiltinTimeout>>))

ChainMemory(f) ==
    OrElse(IF HasEntry(f) THEN functions[f].memory ELSE Undefined,
           OrElse(IF HasEntry(DefaultName) THEN functions[DefaultName].memory
                                           ELSE Undefined,
                  <<BuiltinMemory>>))

\* C15: the runnable unit of every uploaded function carries the timeout and the memory
\* resolved, each on its own, as the function's own manifest value, else the manifest
\* default entry's value, else the built-in (3 and 128).
C15_TimeoutAndMemoryChain ==
    cfTemplate # <<>>
      => \A i \in 1..Len(compressedFunctions) :
            LET f == compressedFunctions[i].functionName
                unit == cfTemplate[1][f]
            IN  unit.type = "function"
                  => unit.timeout = ChainTimeout(f) /\ unit.memory = ChainMemory(f)

\* C16: the builder's result has no resource named default, defaultVersion or
\* defaultPermission, whatever the manifest and the uploaded records are.
C16_NoDefaultFragment ==
    cfTemplate # <<>>
      => \A n \in {DefaultName, DefaultName \o Version, DefaultName \o Permission} :
            n \notin DOMAIN cfTemplate[1]

\* C17: for every uploaded function f the result holds f, referencing the bucket and
\* f's own uploadPath, and fVersion and fPermission, referencing f; n uploaded
\* functions give exactly 3n entries.
C17_ThreeFragmentsPerFunction ==
    cfTemplate # <<>>
      => /\ \A i \in 1..Len(compressedFunctions) :
               LET f == compressedFunctions[i].functionName
                   r == cfTemplate[1]
               IN  /\ {f, f \o Version, f \o Permission} \subseteq DOMAIN r
                   /\ r[f].type = "function"
                   /\ r[f].bucket = bucketName
                   /\ r[f].key = compressedFunctions[i].uploadPath
                   /\ r[f \o Version] = VersionFragment(f)
                   /\ r[f \o Permission] = PermissionFragment(f)
         /\ Cardinality(DOMAIN cfTemplate[1]) = 3 * Len(compressedFunctions)

\* every ordering of the sequence s
Orderings(s) ==
    {[i \in 1..Len(s) |-> s[f[i]]] :
        f \in {g \in [1..Len(s) -> 1..Len(s)] :
                 \A i, j \in 1..Len(s) : g[i] = g[j] => i = j}}

C19_SamePreflightInAnyOrder ==
    cfTemplate # <<>>
      => \A q \in Orderings(routes.paths) :
            LET other == getAPIResources([routes EXCEPT !.paths = q])
            IN  \A key \in DOMAIN cfTemplate[1] :
                   cfTemplate[1][key].type = "cors"
                     => /\ key \in DOMAIN other
                        /\ other[key].corsMethods = cfTemplate[1][key].corsMethods

\* the explicit flag of the method if it has one, else the route default
CorsResolvesTrue(method) ==
    IF method.cors # Undefined THEN method.cors[1] ELSE routes.default.cors = <<TRUE>>

\* the upper-cased keys of the methods whose CORS resolves true, in key order
RECURSIVE CorsList(_)
CorsList(methods) ==
    IF methods = <<>>
      THEN <<>>
      ELSE (IF CorsResolvesTrue(Head(methods))
              THEN <<ToUpperCase(Head(methods).name)>>
              ELSE <<>>) \o CorsList(Tail(methods))

NodeTokens(p) == SelectSeq(Split(TrimPath(p)), LAMBDA t : t # <<>>)

\* the nodes on the path of a key, and the nodes of the whole route map
NodesOf(p) == {SubSeq(NodeTokens(p), 1, n) : n \in 1..Len(NodeTokens(p))}
TreeNodes == UNION {NodesOf(routes.paths[k].path) : k \in 1..Len(routes.paths)}

Front(s) == SubSeq(s, 1, Len(s) - 1)

\* the synthesized name of a node: the root's name, then each token capitalized
RECURSIVE NodeName(_)
NodeName(node) ==
    IF node = <<>>
      THEN RootName
      ELSE NodeName(Front(node)) \o Titlecase(StripBraces(node[Len(node)]))

\* the first key, in iteration order, whose path passes through the node
FirstKey(node) ==
    CHOOSE k \in 1..Len(routes.paths) :
        /\ node \in NodesOf(routes.paths[k].path)
        /\ \A j \in 1..(k - 1) : node \notin NodesOf(routes.paths[j].path)

BaseNames == DOMAIN getBaseTemplate(stackName)
FunctionNames == DOMAIN getFunctionResources(bucketName, functions, compressedFunctions)
RouteNames == DOMAIN getAPIResources(routes)
TriggerNames == DOMAIN getTriggerResources(functions, region, [type |-> "role"])
NodeNames == {resourceCalls[i].name : i \in 1..Len(resourceCalls)}
BindingNames == UNION {DOMAIN methodCalls[i].fragments : i \in 1..Len(methodCalls)}

Disjoint(A, B) == A \cap B = {}

\* C22: in the submitted document no name is shared: distinct tree nodes have distinct
\* names, no node has the name of a method binding, and the base, function, route and
\* trigger fragments have no name in common.
C22_LogicalNamesUnique ==
    cfTemplate # <<>>
      => /\ \A i, j \in 1..Len(resourceCalls) :
               resourceCalls[i].name = resourceCalls[j].name => i = j
         /\ Disjoint(NodeNames, BindingNames)
         /\ Disjoint(BaseNames, FunctionNames) /\ Disjoint(BaseNames, RouteNames)
         /\ Disjoint(BaseNames, TriggerNames) /\ Disjoint(FunctionNames, RouteNames)
         /\ Disjoint(FunctionNames, TriggerNames) /\ Disjoint(RouteNames, TriggerNames)

\* the logical names a fragment of the document refers to
ReferencesOf(f) ==
    CASE f.type \in {"resource", "cors"} -> {IF f.ref.att THEN RiseAPI ELSE f.ref.name}
      [] f.type = "method" -> {IF f.ref.att THEN RiseAPI ELSE f.ref.name, f.fn}
      [] f.type \in {"version", "permission", "trigger"} -> {f.of}
      [] OTHER -> {}

\* C23: in the submitted document every name a fragment refers to (its parent, the node
\* of a binding, the function of a binding, version, permission or trigger) is the name
\* of a resource of the same document.
C23_ReferencesClosed ==
    cfTemplate # <<>>
      => \A n \in DOMAIN cfTemplate[1] : ReferencesOf(cfTemplate[1][n]) \subseteq DOMAIN cfTemplate[1]

\* C24: for every path key createAPIMethod is called exactly once, on the node of the
\* path's final token (the root for '/'), also when the path has an empty interior
\* token, as '/a//b' has.
C24_MethodsOnFinalNodeOnly ==
    cfTemplate # <<>>
      => \A k \in 1..Len(routes.paths) :
            \E i \in 1..Len(methodCalls) :
                /\ methodCalls[i].key = k
                /\ methodCalls[i].node = NodeTokens(routes.paths[k].path)
                /\ \A j \in 1..Len(methodCalls) : methodCalls[j].key = k => j = i

\* whether the manifest entry of f declares a trigger list
DeclaresTriggers(f) == ~functions[f].isNull /\ functions[f].triggers # Undefined

\* the list C25 gives f: its own if declared, else the default entry's, else none
FallbackTriggers(f) ==
    IF DeclaresTriggers(f)
      THEN functions[f].triggers[1]
      ELSE IF DefaultName \in DOMAIN functions /\ DeclaresTriggers(DefaultName)
             THEN functions[DefaultName].triggers[1]
             ELSE <<>>

\* the trigger fragments of f in the submitted document
TriggersIn(doc, f) ==
    {n \in DOMAIN doc : doc[n].type = "trigger" /\ doc[n].of = f}

\* C25: for every manifest function other than default, the trigger fragments of the
\* submitted document are those of its own list if it declares one, and otherwise those
\* of the default entry's list, also when its entry exists without triggers.
C25_TriggersOwnOrDefault ==
    cfTemplate # <<>>
      => \A f \in DOMAIN functions \ {DefaultName} :
            LET expected == TriggersFrom(EmptyObject, FallbackTriggers(f), 1, f, region,
                                         cfTemplate[1][RiseRole])
            IN  /\ TriggersIn(cfTemplate[1], f) = DOMAIN expected
                /\ \A n \in DOMAIN expected : cfTemplate[1][n] = expected[n]

\* C26: a trigger of an unrecognized kind leaves no fragment and stops nothing: every
\* recognized trigger of every list the builder reads, before or after it and of other
\* functions, has its fragment in the document, and the update is submitted.
C26_UnknownKindSkipped ==
    cfTemplate # <<>>
      => /\ pc = "updateStack"
         /\ calls = <<Call("updateStack", <<stackName>>)>>
         /\ \A n \in DOMAIN cfTemplate[1] :
               cfTemplate[1][n].type = "trigger" => cfTemplate[1][n].kind \in RecognizedKinds
         /\ \A f \in DOMAIN functions \ {DefaultName} :
               ResolveTriggers(functions, f) # Undefined
                 => \A i \in 1..Len(ResolveTriggers(functions, f)[1]) :
                       LET t == ResolveTriggers(functions, f)[1][i]
                       IN  t.kind \in RecognizedKinds
                             => \E n \in TriggersIn(cfTemplate[1], f) :
                                   /\ cfTemplate[1][n].kind = t.kind
                                   /\ cfTemplate[1][n].config = t.config

\* a declares a recognized trigger and then an unknown one; the first is in the
\* submitted document
C26_Witness ==
    /\ pc = "updateStack"
    /\ cfTemplate # <<>>
    /\ <<"a">> \in DOMAIN functions
    /\ functions[<<"a">>].triggers
         = <<<<[kind |-> "s3", config |-> <<"x">>], [kind |-> "fax", config |-> <<"x">>]>>>>
    /\ \E n \in TriggersIn(cfTemplate[1], <<"a">>) : cfTemplate[1][n].kind = "s3"

\* the fragment the latest source holding name n gives it: triggers after routes after
\* functions after the base
LatestOf(n, base, fns, rts, trg) ==
    IF n \in DOMAIN trg THEN trg[n]
    ELSE IF n \in DOMAIN rts THEN rts[n]
    ELSE IF n \in DOMAIN fns THEN fns[n]
    ELSE base[n]

\* C27: the submitted Resources hold exactly the names of the base template and of the
\* function, route and trigger fragments, each with the fragment of the latest source
\* holding it; a name of one source only keeps that source's fragment.
C27_LaterSourceWins ==
    cfTemplate # <<>>
      => LET base == getBaseTemplate(stackName)
             fns == getFunctionResources(bucketName, functions, compressedFunctions)
             rts == getAPIResources(routes)
             trg == getTriggerResources(functions, region, cfTemplate[1][RiseRole])
         IN  /\ DOMAIN cfTemplate[1]
                  = DOMAIN base \cup DOMAIN fns \cup DOMAIN rts \cup DOMAIN trg
             /\ \A n \in DOMAIN cfTemplate[1] :
                   cfTemplate[1][n] = LatestOf(n, base, fns, rts, trg)

\* an uploaded function named RiseRole: its fragment replaced the base template's role,
\* while route and trigger fragments stand beside it
C27_Witness ==
    /\ cfTemplate # <<>>
    /\ \E i \in 1..Len(compressedFunctions) : compressedFunctions[i].functionName = RiseRole
    /\ cfTemplate[1][RiseRole].type = "function"
    /\ cfTemplate[1][RiseAPI].type = "restapi"
    /\ \E n \in DOMAIN cfTemplate[1] : cfTemplate[1][n].type = "method"
    /\ \E n \in DOMAIN cfTemplate[1] : cfTemplate[1][n].type = "trigger"

SubmitCall == Call("updateStack", <<stackName>>)
WaitCall == Call("waitFor", <<<<"stackUpdateComplete">>, stackName>>)

\* the calls of the update step so far: the submission, then at most the wait
OneSubmission ==
    /\ pc = "updateStack" => calls = <<SubmitCall>>
    /\ pc = "waitUpdate" => calls = <<SubmitCall, WaitCall>>
    /\ pc = "updateDone" => calls \in {<<SubmitCall>>, <<SubmitCall, WaitCall>>}

\* a step of the chain that issues a call of the update step issues exactly one, with
\* none in flight: the submission on entering the step, the wait on the submission's
\* success; the callback of a failed submission issues none
SequentialStep ==
    /\ (pc' = "updateStack" /\ pc # "updateStack") => pc = "uploadDone"
    /\ (pc' = "waitUpdate" /\ pc # "waitUpdate")
         => /\ pc = "updateStack" /\ reply # <<>> /\ reply[1].ok
            /\ calls' = Append(calls, WaitCall)
    /\ (pc \in {"updateStack", "waitUpdate"} /\ calls' # calls)
         => /\ pc = "updateStack" /\ reply # <<>> /\ reply[1].ok
            /\ reply' = <<>>
    /\ (pc = "updateStack" /\ reply # <<>> /\ ~reply[1].ok)
         => calls' = calls /\ pc' \in {"updateDone", "rejected"}

\* C28: within one update step updateStack is submitted exactly once, the wait is
\* started only by the callback of a successful submission and never after a failed
\* one, and no call is issued while another is in flight.
C28_SequentialSingleInFlight == []OneSubmission /\ [][SequentialStep]_vars

\* the wait is in flight after the one submission
C28_Witness == pc = "waitUpdate" /\ reply = <<>> /\ calls = <<SubmitCall, WaitCall>>

\* a step of the chain that settles an orchestrator step settles it for the first time,
\* and a failed call of the step, unless the catch of updateStack recovers from it,
\* rejects the step with an error
SettlesOnce ==
    /\ result' # result => result'.step # result.step /\ pc \notin {"rejected", "resolved"}
    /\ (UpdateRejection /\ reply' = <<>>)
         => \/ pc' = "rejected" /\ result' = Rejected("updateStack", reply[1].err)
            \/ /\ CatchBranch(state, reply[1].err) # "reject"
               /\ pc' = "updateDone" /\ result' = Resolved("updateStack")
    /\ (pc = "listFunctions" /\ reply # <<>> /\ ~reply[1].ok /\ reply' = <<>>)
         => pc' = "rejected" /\ result' = Rejected("pingFunctions", reply[1].err)
    /\ (pc = "invoke" /\ \E q \in DOMAIN pings :
                             pings[q] = Pending /\ pings'[q] # Pending /\ ~PingOk(pings'[q]))
         => /\ pc' = "rejected"
            /\ result'.step = "pingFunctions" /\ result'.kind = "rejected"

\* the results of the two steps agree with what their calls returned
NothingDropped ==
    /\ pc = "resolved" => \A q \in DOMAIN pings : PingOk(pings[q])
    /\ result.kind = "rejected" => pc = "rejected" /\ result.val # NoError
    /\ pc = "rejected" => result.kind = "rejected"

\* C29: an update or ping step that was started settles, and settles once: it resolves,
\* or rejects with one error, and that result is never replaced; a failed call of the
\* step is never dropped, also when several invocations of the health check fail.
C29_StepsSettleOnce ==
    /\ []NothingDropped
    /\ [][SettlesOnce]_vars
    /\ (pc = "updateStack") ~> (result.step = "updateStack")
    /\ (pc = "listFunctions") ~> (result.step = "pingFunctions")

\* two invocations have failed and the step is rejected
C29_Witness ==
    /\ pc = "rejected" /\ result.step = "pingFunctions"
    /\ \E q1, q2 \in DOMAIN pings :
          /\ q1 # q2
          /\ pings[q1] # Pending /\ ~PingOk(pings[q1])
          /\ pings[q2] # Pending /\ ~PingOk(pings[q2])

\* the errors the infrastructure calls of the update and ping steps reject with
InfrastructureErrors == UpdateErrors \cup ListErrors

\* C30: a ping step that rejects after its listing succeeded, on a wrong status, a wrong
\* body or an invocation that itself failed, rejects with the error 'functions are not
\* deployed properly', which is none of the errors of the infrastructure calls.
C30_HealthFailureIsIntegrityError ==
    /\ NotDeployedProperly \notin InfrastructureErrors
    /\ (result.step = "pingFunctions" /\ result.kind = "rejected" /\ listed # <<>>)
         => result.val = NotDeployedProperly

\* whether the middleware of an invocation handles no errors: fn.length < 4
NonError(inv) == FnLength(middlewares, inv.pos) < 4

\* the step invokes a middleware, and the invocation it makes
Invokes == Len(invocations') = Len(invocations) + 1
NewInvocation == invocations'[Len(invocations')]

\* the earlier invocations of non-error middleware in the run of the invoked one
EarlierNonError ==
    {i \in 1..Len(invocations) : invocations[i].run = NewInvocation.run /\ NonError(invocations[i])}

\* a step of the first run that invokes a non-error middleware invokes the first of the
\* stack or one after all those invoked before, the invocation before it has called next,
\* and no error of the run is waiting for a handler
LinearStep ==
    (started' = 1 /\ Invokes /\ NonError(NewInvocation))
      => /\ \A i \in EarlierNonError : invocations[i].pos < NewInvocation.pos
         /\ EarlierNonError = {}
              => \A q \in 0..(NewInvocation.pos - 1) : FnLength(middlewares, q) > 3
         /\ invocations # <<>> => invocations'[Len(invocations)].nexts >= 1
         /\ pendingErr'[NewInvocation.run] = Undefined

\* C31: in one run the non-error middleware are invoked in registration order from the
\* first, each at most once and only after the one before has called next; after a throw
\* or a next(err) none is invoked until an error handler invoked for it has called next()
\* without an error.
C31_LinearChain == [][LinearStep]_vars

\* the invocations that raise an error in the step: by a throw or by next(err)
Raisers ==
    {i \in 1..Len(invocations) : invocations'[i].raises = invocations[i].raises + 1}

\* the error handlers registered after position p
HandlersAfter(p) ==
    {q \in (p + 1)..(Len(middlewares) - 1) : FnLength(middlewares, q) > 3}

\* a step in which the middleware at position p of the first run raises an error invokes
\* the first error handler after p with that error, or, when there is none, runs the
\* default handler once, which sends 500 exactly when the response is not finished
DeliveredStep ==
    \A i \in Raisers :
        LET p == invocations[i].pos
            r == invocations[i].run
        IN  started' = 1
              => IF HandlersAfter(p) # {}
                   THEN /\ Invokes
                        /\ NewInvocation.run = r
                        /\ NewInvocation.err = <<p>>
                        /\ NewInvocation.pos \in HandlersAfter(p)
                        /\ \A q \in HandlersAfter(p) : NewInvocation.pos <= q
                        /\ defaults' = defaults
                   ELSE /\ ~Invokes
                        /\ defaults' = Append(defaults, [run |-> r, err |-> <<p>>,
                                                         sent |-> ~finished[r]])
                        /\ finished'[r]

\* C32: an error the middleware at position i throws or passes to next reaches the first
\* error handler registered after i, or the default handler when there is none, which
\* runs once for it and sends 500 exactly when the response is not finished; also when
\* the middleware had called next() before it threw.
C32_ErrorDelivered == [][DeliveredStep]_vars

\* C33: no error-handling middleware is ever invoked with a null or undefined err,
\* wherever it stands in the stack, position 0 included.
C33_HandlerOnlyWithError ==
    \A i \in 1..Len(invocations) :
        (started = 1 /\ FnLength(middlewares, invocations[i].pos) > 3)
          => invocations[i].err # Undefined

\* the positions of the middleware invoked for run r, in the order of invocation
PositionsOf(r) ==
    LET own == SelectSeq(invocations, LAMBDA inv : inv.run = r)
    IN  [k \in 1..Len(own) |-> own[k].pos]

\* the invocations of run r so far are those of the first middleware on, none skipped
\* and none twice, and one that has called next() without raising is followed by the
\* invocation of the next middleware, if there is one
OwnProgress(r) ==
    /\ \A k \in 1..Len(PositionsOf(r)) : PositionsOf(r)[k] = k - 1
    /\ \A i \in 1..Len(invocations) :
          (/\ invocations[i].run = r
           /\ invocations[i].nexts >= 1 /\ invocations[i].raises = 0
           /\ invocations[i].pos + 1 < Len(middlewares))
            => \E j \in 1..Len(invocations) :
                  invocations[j].run = r /\ invocations[j].pos = invocations[i].pos + 1

\* C34: when two runs of one Stack overlap and no middleware raises an error, each run
\* invokes the non-error middleware in registration order, each once, with its own
\* request and response, as it would alone.
C34_OverlappingRuns ==
    (\A i \in 1..Len(invocations) : invocations[i].raises = 0)
      => \A r \in Runs : OwnProgress(r)

\* C35: in one ping step a deployed function of the listing is invoked at most once,
\* also when its name starts with '<stackName>-<name>' for more than one manifest name.
C35_InvokedAtMostOnce ==
    \A f \in Invoked : Cardinality({pr \in DOMAIN pings : pr[1] = f}) <= 1

\* what a caller reads of a Response: status code, headers and body
Reads(r) == [statusCode |-> r.statusCode, contentType |-> r.contentType, body |-> r.body]

\* the last call was end, send or json on a Response that was already finished
FurtherCall ==
    /\ outcome # <<>>
    /\ outcome[1].call \in {"end", "send", "json"}
    /\ outcome[1].before.finished

\* done is called at most once, finished tells that it was called, and without
\* done end returns false and the Response never becomes finished
DoneOnce ==
    /\ Len(doneCalls) <= 1
    /\ response[1].finished <=> doneCalls # <<>>
    /\ ~response[1].hasDone =>
          /\ ~response[1].finished
          /\ (outcome # <<>> /\ outcome[1].call = "end") =>
                outcome[1].threw = "nothing" /\ outcome[1].returned = "false"

C37_FailedCallLeavesState ==
    FurtherCall =>
      /\ outcome[1].threw # "nothing"
      /\ Reads(response[1]) = Reads(outcome[1].before)

\* the functions of the manifest that the loop has gone through and not skipped
LegacyBuilt ==
    {k \in DOMAIN legacyFunctions[1] :
        k <= legacyTemplate[1].i /\ legacyFunctions[1][k].path # DefaultPath}

\* the fragments of function k are the template files with k's own values
OwnFragments(k) ==
    LET t == legacyTemplate[1]
        func == legacyFunctions[1][k]
        funcName == FuncName(func.path)
    IN  /\ funcName \in DOMAIN t.Resources
        /\ t.Resources[funcName] = FunctionContent(t.files.function, func)
        /\ funcName \o <<"Version">> \in DOMAIN t.Resources
        /\ t.Resources[funcName \o <<"Version">>]
             = Replace(t.files.version, <<"$FUNCTION_NAME">>, funcName)
        /\ funcName \in DOMAIN t.Outputs
        /\ t.Outputs[funcName] = Replace(t.files.output, <<"$FUNCTION_NAME">>, funcName)

\* C38: in the legacy DeployFunctions every function's resource carries its own
\* handler, storage key and timeout, and its version and output fragments name it,
\* whichever functions the loop went through before
C38_OwnValues ==
    legacyTemplate # <<>> => \A k \in LegacyBuilt : OwnFragments(k)

----------------------------------------------------------------------------

Next ==
    \/ RemoteReply
    \/ getBucket \/ headBucketThen \/ headBucketCatch
    \/ createBucketThen \/ createBucketCatch
    \/ getStack \/ describeStacksThen \/ describeStacksCatch
    \/ createStackThen \/ createStackCatch
    \/ waitCreateThen \/ waitCreateCatch
    \/ uploadFunctions \/ putObjectSettle
    \/ updateStack \/ updateStackThen \/ waitForUpdateThen \/ updateStackCatch
    \/ pingFunctions \/ listFunctionsThen \/ listFunctionsCatch \/ invokeSettle

Spec == Init /\ [][Next]_vars

\* every transfer the upload step started settles: putObject answers or times out
FairSpec == Spec /\ WF_vars(putObjectSettle)

\* every remote call answers and every callback whose promise has settled runs
FairSteps ==
    /\ Spec
    /\ WF_vars(RemoteReply)
    /\ WF_vars(updateStackThen) /\ WF_vars(waitForUpdateThen) /\ WF_vars(updateStackCatch)
    /\ WF_vars(listFunctionsThen) /\ WF_vars(listFunctionsCatch)
    /\ WF_vars(invokeSettle)

\* the function builder applied to every manifest and list of uploaded records
InitFunctions ==
    /\ ChainIdle
    /\ FrameworkIdle
    /\ functions \in BuilderManifests
    /\ compressedFunctions \in UploadedFunctions
    /\ routes = NoRoutes
    /\ cfTemplate = <<>>
    /\ methodCalls = <<>>
    /\ resourceCalls = <<>>

NextFunctions == SynthesizeFunctions

SpecFunctions == InitFunctions /\ [][NextFunctions]_vars

\* the route builder applied to every route map
InitRoutes ==
    /\ ChainIdle
    /\ FrameworkIdle
    /\ functions = EmptyObject
    /\ compressedFunctions = <<>>
    /\ routes \in RouteMaps
    /\ cfTemplate = <<>>
    /\ methodCalls = <<>>
    /\ resourceCalls = <<>>

NextRoutes == SynthesizeRoutes

SpecRoutes == InitRoutes /\ [][NextRoutes]_vars

\* the deploy chain after a successful upload step, the update step about to start
ChainUploaded ==
    /\ state = "UPLOADED"
    /\ hist = <<"INIT", "FETCHED_BUCKET", "FETCHED_STACK", "UPLOADING", "UPLOADED">>
    /\ pc = "uploadDone"
    /\ calls = [p \in Packages |-> Call("putObject", <<bucketName>>)]
    /\ reply = <<>>
    /\ result = Resolved("uploadFunctions")
    /\ tolerated = "none"
    /\ transfers = [p \in Packages |-> "ok"]
    /\ tempFiles = {}
    /\ listed = <<>>
    /\ pings = <<>>

\* a trigger declaration: a recognized kind or one the switch has no case for
Triggers == [kind : {"s3", "fax"}, config : {<<"x">>}]

\* manifests of the document: a, without triggers, with one, or with an unknown one first
DocumentSettings ==
    [isNull : {FALSE}, timeout : {Undefined}, memory : {Undefined},
     triggers : {Undefined, <<<<[kind |-> "s3", config |-> <<"x">>]>>>>,
                 <<<<[kind |-> "fax", config |-> <<"x">>],
                     [kind |-> "s3", config |-> <<"x">>]>>>>}]

DocumentManifests ==
    UNION {[names -> DocumentSettings] :
             names \in {ns \in SUBSET {<<"a">>} : Cardinality(ns) <= MaxManifest}}

\* uploaded records of the document: a, and a function named like the base role
DocumentUploads ==
    {u \in SeqsUpTo([functionName : {<<"a">>, RiseRole}, uploadPath : {<<"k", "1">>}],
                    MaxUploaded) :
        \A i, j \in 1..Len(u) : u[i].functionName = u[j].functionName => i = j}

\* route maps of the document: a parameter and a literal segment of the same letters,
\* an empty interior token, and a get bound to an uploaded or to an unknown function
DocumentPaths == {<<"/", "a">>, <<"/", "{", "a", "}">>, <<"/", "a", "/", "/", "b">>}
DocumentMethods == {<<[name |-> Get, fn |-> f, cors |-> Undefined]>> : f \in {<<"a">>, <<"b">>}}

DocumentRoutes ==
    {[paths |-> ps, default |-> [cors |-> Undefined]] :
        ps \in {s \in SeqsUpTo([path : DocumentPaths, methods : DocumentMethods], MaxPaths) :
                  \A i, j \in 1..Len(s) : s[i].path = s[j].path => i = j}}

\* the update step started on every manifest, uploaded list and route map above
InitDocument ==
    /\ ChainUploaded
    /\ FrameworkIdle
    /\ functions \in DocumentManifests
    /\ compressedFunctions \in DocumentUploads
    /\ routes \in DocumentRoutes
    /\ cfTemplate = <<>>
    /\ methodCalls = <<>>
    /\ resourceCalls = <<>>

NextDocument == updateStack

SpecDocument == InitDocument /\ [][NextDocument]_vars

\* a manifest entry as the trigger builder reads it: null, or with an optional list
TriggerSettings ==
    [isNull : {FALSE}, timeout : {Undefined}, memory : {Undefined},
     triggers : {Undefined} \cup {<<l>> : l \in SeqsUpTo(Triggers, MaxTriggers)}]
      \cup {[isNull |-> TRUE, timeout |-> Undefined, memory |-> Undefined,
             triggers |-> Undefined]}

TriggerManifests ==
    UNION {[names -> TriggerSettings] :
             names \in {ns \in SUBSET BuilderNames : Cardinality(ns) <= MaxManifest}}

\* the update step started on every manifest above, nothing uploaded and no routes
InitTriggers ==
    /\ ChainUploaded
    /\ FrameworkIdle
    /\ functions \in TriggerManifests
    /\ compressedFunctions = <<>>
    /\ routes = NoRoutes
    /\ cfTemplate = <<>>
    /\ methodCalls = <<>>
    /\ resourceCalls = <<>>

NextTriggers == updateStack

SpecTriggers == InitTriggers /\ [][NextTriggers]_vars

\* one Stack with every registration of up to MaxMiddlewares middleware, before run
InitStack ==
    /\ ChainIdle
    /\ functions = EmptyObject
    /\ NothingToSynthesize
    /\ middlewares \in MiddlewareStacks
    /\ requests = 1
    /\ NotRunning
    /\ NoResponse
    /\ NoLegacy

NextStack == run \/ mwNext \/ mwKeepNext \/ mwSend \/ mwReturn \/ mwThrow \/ keptNext

SpecStack == InitStack /\ [][NextStack]_vars

\* one Stack of middleware that handle no errors, and two requests
InitOverlap ==
    /\ ChainIdle
    /\ functions = EmptyObject
    /\ NothingToSynthesize
    /\ middlewares \in {stk \in MiddlewareStacks : \A i \in 1..Len(stk) : stk[i] < 4}
    /\ requests = Cardinality(Runs)
    /\ NotRunning
    /\ NoResponse
    /\ NoLegacy

SpecOverlap == InitOverlap /\ [][NextStack]_vars

\* a Response right after its construction, with and without a done callback
InitResponse ==
    /\ ChainIdle
    /\ functions = EmptyObject
    /\ NothingToSynthesize
    /\ NoMiddleware
    /\ NotRunning
    /\ response \in {<<NewResponse(hasDone)>> : hasDone \in BOOLEAN}
    /\ doneCalls = <<>>
    /\ outcome = <<>>
    /\ NoLegacy

NextResponse == status \/ send \/ json \/ end

SpecResponse == InitResponse /\ [][NextResponse]_vars

\* a manifest given to the legacy DeployFunctions, before it is called
InitLegacy ==
    /\ ChainIdle
    /\ functions = EmptyObject
    /\ NothingToSynthesize
    /\ NoMiddleware
    /\ NotRunning
    /\ NoResponse
    /\ legacyFunctions \in {<<m>> : m \in LegacyManifests}
    /\ legacyTemplate = <<>>

NextLegacy == legacyDeployFunctions \/ legacyLoop \/ legacyUpdateStack

SpecLegacy == InitLegacy /\ [][NextLegacy]_vars

====
